---- MODULE Spec2Model ----
(***************************************************************************)
(* A model of the calendar's interval layout engine (WeekView and DayView  *)
(* getEventsWithLayout), of its undo history (pushUndo, popUndo,           *)
(* executeUndo), of the week view's two pointer gestures (drag to create,  *)
(* drag to reschedule), of the events endpoint they call, and of the       *)
(* colour rules (colorRulesStorage, getEventColor).                        *)
(*                                                                         *)
(* Event ids are opaque strings in the program; the layout only compares   *)
(* them with localeCompare.  An id is modelled by its rank in collation    *)
(* order, a natural number: localeCompare(a, b) has the sign of a - b.     *)
(***************************************************************************)
EXTENDS Integers, Sequences, FiniteSets, TLC

VARIABLES
  dayEvents,        \* WeekView/DayView: the events of one day, as the store holds them
  eventLayouts,     \* WeekView: the Map returned by getEventsWithLayout(dayEvents)
  dayViewLayouts,   \* DayView: the Map returned by its getEventsWithLayout(dayEvents)
  undoStack,        \* undoStorage: the module-level undoStack array
  pendingCalls,     \* the fetch calls issued (by executeUndo, by a drop) and not yet ended
  mutations,        \* how many mutating intents the session has issued so far
  unbounded,        \* history: the unbounded LIFO stack driven by the same operations
  lastOp,           \* history: the last operation, the state before it and what it returned
  week,             \* WeekView: its useState/useRef cells of the two gestures
  events,           \* WeekView: the `events' prop, the list the parent fetched last
  dnd,              \* browser: the phase of the native drag-and-drop operation
  pressTarget,      \* browser: the event ([id |-> ..]) a held mouse button went down on
  rescheduled,      \* history: a drop was completed and no mousedown came since
  store,            \* the remote calendar: the stored event behind each event id
  journal,          \* history: the last reschedule, what was stored before it, its calls
  storedRules,      \* localStorage: the item under the colour rules' STORAGE_KEY
  colorArgs,        \* the title, rule list and event a colour is resolved for
  offset            \* the minute offset that is snapped

layoutVars == <<dayEvents, eventLayouts, dayViewLayouts>>

undoVars == <<undoStack, pendingCalls, mutations, unbounded, lastOp>>

weekVars == <<week, events, dnd, pressTarget, rescheduled>>

remoteVars == <<store, journal>>

pureVars == <<storedRules, colorArgs, offset>>

vars == <<dayEvents, eventLayouts, dayViewLayouts,
          undoStack, pendingCalls, mutations, unbounded, lastOp,
          week, events, dnd, pressTarget, rescheduled, store, journal,
          storedRules, colorArgs, offset>>

-----------------------------------------------------------------------------
(* Bounds of the model *)

MaxEvents == 4      \* events on the day
MaxReorder == 3     \* a re-render permutes lists of at most this many events
MaxMutations == 11  \* mutating intents (pushes) in one session
MaxUndos == 4       \* entries taken off a non-empty stack in one session
MaxPending == 2     \* inverse calls in flight at once
Overshoot == 40     \* how far before 0 and past 1440 the snapped offsets reach
MaxSpanEvents == 3  \* events on the day when their ends range over two days
MaxParseRequests == 2  \* requests the parse endpoint serves in one session
MaxIntents == 2     \* mutating intents issued from the week view in one session

\* The times events are drawn from: starts at 09:00, 09:30 and 10:00, lasting
\* 30 or 60 minutes, or ending at the minute of day they start at (an event
\* of no duration, or one ending on a later day at the same time).
StartTimes == {540, 570, 600}
Durations == {0, 30, 60}

-----------------------------------------------------------------------------
(* Program constants *)

MinutesPerDay == 1440     \* 24 * 60
MinHeightWeek == 20       \* Math.max(20, ...) in WeekView getEventPosition
MinHeightDay == 30        \* Math.max(30, ...) in DayView getEventPosition
UndoKeep == 9             \* undoStack.slice(-9) in pushUndo

Null == [null |-> TRUE]

\* WeekView's gesture cells as useState/useRef initialise them.
IdleWeek ==
  [isDragging |-> FALSE, dragStart |-> Null, dragEnd |-> Null, dragDayRef |-> Null,
   draggingEvent |-> Null, dropTarget |-> Null, createModalData |-> Null,
   selectedEvent |-> Null]

Max(a, b) == IF a >= b THEN a ELSE b

-----------------------------------------------------------------------------
(* Events.  start/end are the minute of the day of the start/end instant    *)
(* (getHours() * 60 + getMinutes()); timed says start.dateTime is present,  *)
(* hasEnd that end.dateTime or end.date is.                                 *)

EventIds == 1..MaxEvents

InputEvents(id) ==
  {[id |-> id, timed |-> TRUE, hasEnd |-> TRUE, start |-> s, end |-> s + d] :
      s \in StartTimes, d \in Durations}

\* WeekView getEventPosition: null without a start or end string; the end is
\* capped at 24:00 when its minute of day is not after the start's.
getEventPositionMin(event, minHeight) ==
  IF ~event.hasEnd
    THEN Null
    ELSE LET startMinutes == event.start
             endMinutes == IF event.end <= startMinutes THEN MinutesPerDay ELSE event.end
         IN [startMinutes |-> startMinutes,
             endMinutes |-> endMinutes,
             duration |-> Max(minHeight, endMinutes - startMinutes)]

getEventPosition(event) == getEventPositionMin(event, MinHeightWeek)

DayView_getEventPosition(event) == getEventPositionMin(event, MinHeightDay)

\* (aPos?.startMinutes || 0)
StartOrZero(pos) == IF pos = Null THEN 0 ELSE pos.startMinutes

\* compareEvents without the tie-break on the id.
compareEvents_noTieBreak(a, b) ==
  StartOrZero(getEventPosition(a)) - StartOrZero(getEventPosition(b))

\* The comparator of the sort: start time, then a.id.localeCompare(b.id).
compareEvents(a, b) ==
  LET timeDiff == StartOrZero(getEventPosition(a)) - StartOrZero(getEventPosition(b))
  IN IF timeDiff # 0 THEN timeDiff ELSE a.id - b.id

\* Array.prototype.sort is stable: an insertion sort that keeps equal elements
\* in their input order.
RECURSIVE InsertSorted(_, _)
InsertSorted(e, s) ==
  IF s = <<>> THEN <<e>>
  ELSE IF compareEvents(e, s[Len(s)]) >= 0 THEN Append(s, e)
  ELSE Append(InsertSorted(e, SubSeq(s, 1, Len(s) - 1)), s[Len(s)])

\* The list left in the order it was delivered in.
SortEvents_unsorted(s) == s

RECURSIVE SortEvents(_)
SortEvents(s) ==
  IF s = <<>> THEN <<>>
  ELSE InsertSorted(s[Len(s)], SortEvents(SubSeq(s, 1, Len(s) - 1)))

\* dayEvents.filter(e => e.start.dateTime)
RECURSIVE FilterTimed(_)
FilterTimed(s) ==
  IF s = <<>> THEN <<>>
  ELSE IF s[1].timed THEN <<s[1]>> \o FilterTimed(Tail(s)) ELSE FilterTimed(Tail(s))

\* FirstFreeColumn comparing with the start of the column's last event.
RECURSIVE FirstFreeColumn_lastStart(_, _, _)
FirstFreeColumn_lastStart(columns, eventPos, i) ==
  IF i > Len(columns) THEN 0
  ELSE LET lastPos == getEventPosition(columns[i][Len(columns[i])])
       IN IF lastPos # Null /\ eventPos.startMinutes >= lastPos.startMinutes
            THEN i
            ELSE FirstFreeColumn_lastStart(columns, eventPos, i + 1)

\* FirstFreeColumn with > for >=: a column is not reused by an event that
\* starts the minute its last event ends.
RECURSIVE FirstFreeColumn_strict(_, _, _)
FirstFreeColumn_strict(columns, eventPos, i) ==
  IF i > Len(columns) THEN 0
  ELSE LET lastPos == getEventPosition(columns[i][Len(columns[i])])
       IN IF lastPos # Null /\ eventPos.startMinutes > lastPos.endMinutes
            THEN i
            ELSE FirstFreeColumn_strict(columns, eventPos, i + 1)

\* The first column whose last event ends at or before the event starts, or 0.
RECURSIVE FirstFreeColumn(_, _, _)
FirstFreeColumn(columns, eventPos, i) ==
  IF i > Len(columns) THEN 0
  ELSE LET lastInColumn == columns[i][Len(columns[i])]
           lastPos == getEventPosition(lastInColumn)
       IN IF lastPos # Null /\ eventPos.startMinutes >= lastPos.endMinutes
            THEN i
            ELSE FirstFreeColumn(columns, eventPos, i + 1)

\* The body of sorted.forEach: place one event.
\* A placement that opens a new column for every event.
PlaceEvent_alwaysNew(columns, event) ==
  IF getEventPosition(event) = Null THEN columns ELSE Append(columns, <<event>>)

PlaceEvent(columns, event) ==
  LET eventPos == getEventPosition(event)
  IN IF eventPos = Null THEN columns
     ELSE LET i == FirstFreeColumn(columns, eventPos, 1)
          IN IF i # 0
               THEN [columns EXCEPT ![i] = Append(@, event)]
               ELSE Append(columns, <<event>>)

RECURSIVE PlaceAll(_, _)
PlaceAll(columns, sorted) ==
  IF sorted = <<>> THEN columns
  ELSE PlaceAll(PlaceEvent(columns, Head(sorted)), Tail(sorted))

\* The physical columns built by the greedy packing.
BuildColumns(evs) == PlaceAll(<<>>, SortEvents(FilterTimed(evs)))

\* eventPos.startMinutes < otherPos.endMinutes && eventPos.endMinutes > otherPos.startMinutes
PosOverlap(eventPos, otherPos) ==
  eventPos.startMinutes < otherPos.endMinutes /\ eventPos.endMinutes > otherPos.startMinutes

\* otherColumn.some(otherEvent => ...)
ColumnHasOverlap(otherColumn, eventPos) ==
  \E k \in 1..Len(otherColumn) :
     LET otherPos == getEventPosition(otherColumn[k])
     IN otherPos # Null /\ PosOverlap(eventPos, otherPos)

\* overlappingColumnIndices: the event's own column and every other column
\* holding an event that overlaps it (0-based indices).
OverlappingColumnIndices(columns, colIndex, eventPos) ==
  {colIndex} \cup
  {otherColIndex \in 0..(Len(columns) - 1) :
      otherColIndex # colIndex /\ ColumnHasOverlap(columns[otherColIndex + 1], eventPos)}

\* WeekLayoutEntry with the number of columns of the day as totalColumns.
WeekLayoutEntry_allColumns(columns, colIndex, event) ==
  [column |-> colIndex, totalColumns |-> Len(columns), maxColumn |-> colIndex]

\* WeekLayoutEntry with one column counted for every overlapping event.
WeekLayoutEntry_countEvents(columns, colIndex, event) ==
  LET eventPos == getEventPosition(event)
      overlappingColumnIndices == OverlappingColumnIndices(columns, colIndex, eventPos)
      localColumnIndex == Cardinality({c \in overlappingColumnIndices : c < colIndex})
      overlappingEvents ==
        {<<c, k>> \in (1..Len(columns)) \X (1..MaxEvents + 1) :
            /\ k <= Len(columns[c])
            /\ c # colIndex + 1
            /\ PosOverlap(eventPos, getEventPosition(columns[c][k]))}
  IN [column |-> localColumnIndex,
      totalColumns |-> 1 + Cardinality(overlappingEvents),
      maxColumn |-> localColumnIndex]

\* The layout entry WeekView stores for the event at columns[colIndex].
WeekLayoutEntry(columns, colIndex, event) ==
  LET eventPos == getEventPosition(event)
      overlappingColumnIndices == OverlappingColumnIndices(columns, colIndex, eventPos)
      \* indexOf(colIndex) in the sorted index list
      localColumnIndex == Cardinality({c \in overlappingColumnIndices : c < colIndex})
      localColumnCount == Cardinality(overlappingColumnIndices)
  IN [column |-> localColumnIndex,
      totalColumns |-> localColumnCount,
      maxColumn |-> localColumnIndex]

\* The layout entry DayView stores for the event at columns[colIndex].
DayLayoutEntry(columns, colIndex, event) ==
  LET eventPos == getEventPosition(event)
      overlappingColumns == Cardinality(OverlappingColumnIndices(columns, colIndex, eventPos))
  IN [column |-> colIndex,
      totalColumns |-> Max(overlappingColumns, IF Len(columns) > 1 THEN Len(columns) ELSE 1)]

\* The ids placed in some column, and where each was placed.
PlacedIds(columns) ==
  UNION {{columns[c][k].id : k \in 1..Len(columns[c])} : c \in 1..Len(columns)}

ColumnOf(columns, id) ==
  CHOOSE c \in 0..(Len(columns) - 1) : \E k \in 1..Len(columns[c + 1]) : columns[c + 1][k].id = id

EventOf(columns, id) ==
  LET c == ColumnOf(columns, id) + 1
  IN columns[c][CHOOSE k \in 1..Len(columns[c]) : columns[c][k].id = id]

\* WeekView getEventsWithLayout: the Map from event id to its layout.
getEventsWithLayout(evs) ==
  LET columns == BuildColumns(evs)
  IN [id \in PlacedIds(columns) |->
        WeekLayoutEntry(columns, ColumnOf(columns, id), EventOf(columns, id))]

\* DayView getEventsWithLayout.
DayView_getEventsWithLayout(evs) ==
  LET columns == BuildColumns(evs)
  IN [id \in PlacedIds(columns) |->
        DayLayoutEntry(columns, ColumnOf(columns, id), EventOf(columns, id))]

-----------------------------------------------------------------------------
(* The layout specification: the day's event list grows one event at a time *)
(* and both views lay it out on every render.                               *)

\* All orders of a list, as a set of lists.
Orders(s) ==
  {[i \in 1..Len(s) |-> s[p[i]]] :
      p \in {q \in [1..Len(s) -> 1..Len(s)] : \A i, j \in 1..Len(s) : q[i] = q[j] => i = j}}

InitLayout ==
  /\ dayEvents = <<>>
  /\ eventLayouts = getEventsWithLayout(<<>>)
  /\ dayViewLayouts = DayView_getEventsWithLayout(<<>>)
  /\ undoStack = <<>>
  /\ pendingCalls = {}
  /\ mutations = 0
  /\ unbounded = <<>>
  /\ lastOp = [op |-> "none"]
  /\ week = IdleWeek
  /\ events = {}
  /\ dnd = "none"
  /\ pressTarget = Null
  /\ rescheduled = FALSE
  /\ store = <<>>
  /\ journal = Null
  /\ storedRules = Null
  /\ colorArgs = Null
  /\ offset = 0

\* The event list is refreshed with one more event; the newest event comes
\* last and ids are handed out in descending order, so that delivery order
\* and id order differ.
AddEvent ==
  /\ Len(dayEvents) < MaxEvents
  /\ \E e \in InputEvents(MaxEvents - Len(dayEvents)) :
        /\ dayEvents' = Append(dayEvents, e)
        /\ eventLayouts' = getEventsWithLayout(dayEvents')
        /\ dayViewLayouts' = DayView_getEventsWithLayout(dayEvents')
  /\ UNCHANGED <<undoVars, weekVars, remoteVars, pureVars>>

\* The same events are delivered to the views in another order and laid out
\* again.
Rerender ==
  /\ Len(dayEvents) <= MaxReorder
  /\ \E s \in Orders(dayEvents) :
        /\ eventLayouts' = getEventsWithLayout(s)
        /\ dayViewLayouts' = DayView_getEventsWithLayout(s)
  /\ UNCHANGED <<dayEvents, undoVars, weekVars, remoteVars, pureVars>>

NextLayout == AddEvent \/ Rerender

SpecLayout == InitLayout /\ [][NextLayout]_vars

-----------------------------------------------------------------------------
(* Properties of the layout *)

\* The laid-out events of the day and their positions, by id.
LaidOut == {i \in 1..Len(dayEvents) : dayEvents[i].id \in DOMAIN eventLayouts}

Pos(i) == getEventPosition(dayEvents[i])

Overlaps(i, j) == i # j /\ PosOverlap(Pos(i), Pos(j))

WeekLayout(i) == eventLayouts[dayEvents[i].id]

DayLayout(i) == dayViewLayouts[dayEvents[i].id]

\* No two events of one physical column overlap in time.
ColumnsDisjoint(columns) ==
  \A c \in 1..Len(columns) : \A k, l \in 1..Len(columns[c]) :
     k # l => ~PosOverlap(getEventPosition(columns[c][k]), getEventPosition(columns[c][l]))

\* C1: two distinct events of a day whose time ranges overlap get different
\* `column' values from the week view's layout, and no two events placed in
\* the same physical column overlap in time.
C1_OverlappingEventsInDistinctColumns ==
  /\ \A i, j \in LaidOut : Overlaps(i, j) => WeekLayout(i).column # WeekLayout(j).column
  /\ ColumnsDisjoint(BuildColumns(dayEvents))

\* Some physical column holds two events or more.
ColumnReused(columns) == \E c \in 1..Len(columns) : Len(columns[c]) >= 2

\* A day with two overlapping events and a physical column holding two events.
C1_Witness ==
  /\ \E i, j \in LaidOut : Overlaps(i, j)
  /\ ColumnReused(BuildColumns(dayEvents))

\* The horizontal extents [column/totalColumns, (column+1)/totalColumns) of
\* two layout entries are disjoint (compared without division).
ExtentsDisjoint(la, lb) ==
  \/ (la.column + 1) * lb.totalColumns <= lb.column * la.totalColumns
  \/ (lb.column + 1) * la.totalColumns <= la.column * lb.totalColumns

\* C2: any two events that overlap in time are rendered by the week view
\* without visual collision: their horizontal extents are disjoint.
C2_NoVisualCollision ==
  \A i, j \in LaidOut : Overlaps(i, j) => ExtentsDisjoint(WeekLayout(i), WeekLayout(j))

Isolated(i) == \A j \in LaidOut : ~Overlaps(i, j)

\* C3: in the week view every laid-out event has totalColumns >= 1, and an
\* event overlapping no other event of its day has totalColumns = 1.
C3_WeekTotalColumns ==
  \A i \in LaidOut :
     /\ WeekLayout(i).totalColumns >= 1
     /\ Isolated(i) => WeekLayout(i).totalColumns = 1

\* An isolated event on a day whose other events occupy two columns or more.
C3_Witness ==
  /\ Len(BuildColumns(dayEvents)) >= 2
  /\ \E i \in LaidOut : Isolated(i) /\ WeekLayout(i).totalColumns = 1

\* The physical columns (0-based) holding the i-th event or an event that
\* overlaps it.
ColumnsOverlapping(columns, i) ==
  {c \in 0..(Len(columns) - 1) :
      \E k \in 1..Len(columns[c + 1]) :
         \/ columns[c + 1][k].id = dayEvents[i].id
         \/ PosOverlap(Pos(i), getEventPosition(columns[c + 1][k]))}

\* C27: in the week view's layout each event's totalColumns is the number of
\* distinct physical columns holding at least one event that overlaps it in
\* time, its own column included; an event that overlaps exactly one other
\* event has totalColumns = 2 whatever the number of columns of the day.
C27_TotalColumnsCountsDistinctColumns ==
  LET columns == BuildColumns(dayEvents)
  IN \A i \in LaidOut :
        /\ WeekLayout(i).totalColumns = Cardinality(ColumnsOverlapping(columns, i))
        /\ Cardinality({j \in LaidOut : Overlaps(i, j)}) = 1 =>
              WeekLayout(i).totalColumns = 2

\* An event overlapping exactly one other event has totalColumns 2 on a day
\* whose events occupy three columns.
C27_Witness ==
  /\ Len(BuildColumns(dayEvents)) >= 3
  /\ \E i \in LaidOut :
        /\ Cardinality({j \in LaidOut : Overlaps(i, j)}) = 1
        /\ WeekLayout(i).totalColumns = 2

\* C37: in the week view's layout the `column' assigned to an event is the
\* index of the physical column it was placed in (an event placed in column k
\* overlaps an event in every column below k), and 0 <= column < totalColumns
\* for every laid-out event.
C37_ColumnIsPhysicalColumn ==
  LET columns == BuildColumns(dayEvents)
  IN \A i \in LaidOut :
        LET k == ColumnOf(columns, dayEvents[i].id)
        IN /\ WeekLayout(i).column = k
           /\ \A c \in 0..(k - 1) : ColumnHasOverlap(columns[c + 1], Pos(i))
           /\ 0 <= WeekLayout(i).column
           /\ WeekLayout(i).column < WeekLayout(i).totalColumns

\* An event sits in the third physical column, with column 2 of 3.
C37_Witness ==
  \E i \in LaidOut :
     /\ ColumnOf(BuildColumns(dayEvents), dayEvents[i].id) = 2
     /\ WeekLayout(i).column = 2
     /\ WeekLayout(i).totalColumns = 3

\* The number of laid-out events whose range [startMinutes, endMinutes) holds
\* the minute t.
DepthAt(t) ==
  Cardinality({i \in LaidOut : Pos(i).startMinutes <= t /\ t < Pos(i).endMinutes})

\* The largest number of events that overlap at one instant; it is reached at
\* the start of some event.
MaxDepth ==
  LET depths == {DepthAt(Pos(i).startMinutes) : i \in LaidOut}
  IN IF depths = {} THEN 0 ELSE CHOOSE d \in depths : \A e \in depths : e <= d

\* C38: the greedy packing uses the minimum number of columns: the number of
\* physical columns opened equals the largest number of events that overlap
\* at one instant.
C38_MinimumNumberOfColumns ==
  Len(BuildColumns(dayEvents)) = MaxDepth

\* Four events are packed into two columns.
C38_Witness ==
  /\ Cardinality(LaidOut) = 4
  /\ Len(BuildColumns(dayEvents)) = 2
  /\ MaxDepth = 2

\* C4: in the single-day view every laid-out event has totalColumns >= 1, and
\* an event overlapping no other event of the day has totalColumns = 1.
C4_DayTotalColumns ==
  \A i \in 1..Len(dayEvents) : dayEvents[i].id \in DOMAIN dayViewLayouts =>
     /\ DayLayout(i).totalColumns >= 1
     /\ Isolated(i) => DayLayout(i).totalColumns = 1

\* C5: the layout does not depend on the order in which the same events are
\* delivered: a render that leaves the set of events unchanged leaves every
\* event's (column, totalColumns) unchanged.
C5_OrderIndependent ==
  [][dayEvents' = dayEvents => eventLayouts' = eventLayouts]_vars

\* A day the views re-render in every order, with two events that start at
\* the same time.
C5_Witness ==
  /\ Len(dayEvents) >= 2 /\ Len(dayEvents) <= MaxReorder
  /\ \E i, j \in LaidOut : i # j /\ Pos(i).startMinutes = Pos(j).startMinutes

\* The shape of C6: a starts first, b overlaps both a and c, and c starts no
\* earlier than a ends.
Staggered(a, b, c) ==
  /\ Pos(a).startMinutes < Pos(b).startMinutes
  /\ Overlaps(a, b) /\ Overlaps(b, c)
  /\ Pos(c).startMinutes >= Pos(a).endMinutes

\* C6: for three events on one day of that shape, a and c get the same column
\* index, b a different one after a's, and a and b are in a 2-column group.
C6_StaggeredTriple ==
  Len(dayEvents) = 3 =>
    \A a, b, c \in LaidOut : Staggered(a, b, c) =>
       /\ WeekLayout(a).column = WeekLayout(c).column
       /\ WeekLayout(b).column # WeekLayout(a).column
       /\ WeekLayout(a).column < WeekLayout(b).column
       /\ WeekLayout(a).totalColumns = 2
       /\ WeekLayout(b).totalColumns = 2

\* The day holds exactly 09:00-10:00, 09:30-10:30 and 10:00-11:00.
C6_Witness ==
  /\ Len(dayEvents) = 3
  /\ \E a, b, c \in LaidOut :
        /\ Staggered(a, b, c)
        /\ Pos(a).startMinutes = 540 /\ Pos(a).endMinutes = 600
        /\ Pos(b).startMinutes = 570 /\ Pos(b).endMinutes = 630
        /\ Pos(c).startMinutes = 600 /\ Pos(c).endMinutes = 660

-----------------------------------------------------------------------------
(* The undo history (undoStorage): pushUndo, popUndo, executeUndo.          *)

Undefined == [undefined |-> TRUE]

UndoTypes == <<"create", "delete", "edit", "move">>

\* The UndoAction pushed for the n-th mutating intent of a session.  Every
\* intent concerns its own event (eventId n); the kinds come round in turn.
UndoActionFor(n) ==
  LET type == UndoTypes[(n % 4) + 1]
  IN CASE type = "create" -> [type |-> "create", eventId |-> n, calendarId |-> "primary"]
       [] type = "delete" -> [type |-> "delete", eventData |-> [id |-> n]]
       [] type = "edit" -> [type |-> "edit", eventId |-> n, calendarId |-> "primary",
                            original |-> [start |-> n, end |-> n + 1]]
       [] type = "move" -> [type |-> "move", eventId |-> n, calendarId |-> "primary",
                            originalStart |-> n, originalEnd |-> n + 1]

\* Array.prototype.slice(-k): the last k elements, or all of them.
SliceLast(stack, k) ==
  IF Len(stack) <= k THEN stack ELSE SubSeq(stack, Len(stack) - k + 1, Len(stack))

\* pushUndo without the slice: the stack grows without bound.
pushUndo_noSlice(stack, action) == Append(stack, action)

\* pushUndo with slice(0, 9): on overflow the newest entries are discarded.
pushUndo_keepOldest(stack, action) ==
  Append(IF Len(stack) <= UndoKeep THEN stack ELSE SubSeq(stack, 1, UndoKeep), action)

\* pushUndo: undoStack = [...undoStack.slice(-9), action]
pushUndo(stack, action) == Append(SliceLast(stack, UndoKeep), action)

\* popUndo that reads the last entry without removing it.
popUndo_peek(stack) ==
  IF stack = <<>>
    THEN [action |-> Undefined, stack |-> <<>>]
    ELSE [action |-> stack[Len(stack)], stack |-> stack]

\* popUndo: Array.prototype.pop removes and returns the last element, and
\* returns undefined on an empty array, which it leaves empty.
popUndo(stack) ==
  IF stack = <<>>
    THEN [action |-> Undefined, stack |-> <<>>]
    ELSE [action |-> stack[Len(stack)], stack |-> SubSeq(stack, 1, Len(stack) - 1)]

\* The switch with `move' falling into the `delete' case.
InverseCall_moveAsDelete(action) ==
  CASE action.type = "create" ->
         [method |-> "DELETE",
          body |-> [eventId |-> action.eventId, calendarId |-> action.calendarId]]
    [] action.type = "delete" ->
         [method |-> "POST", body |-> action.eventData]
    [] action.type = "edit" ->
         [method |-> "PATCH",
          body |-> [eventId |-> action.eventId, calendarId |-> action.calendarId,
                    start |-> action.original.start, end |-> action.original.end]]
    [] action.type = "move" ->
         [method |-> "POST",
          body |-> [eventId |-> action.eventId, calendarId |-> action.calendarId,
                    start |-> action.originalStart, end |-> action.originalEnd]]

\* The fetch call executeUndo issues for an action: the switch on action.type.
InverseCall(action) ==
  CASE action.type = "create" ->
         [method |-> "DELETE",
          body |-> [eventId |-> action.eventId, calendarId |-> action.calendarId]]
    [] action.type = "delete" ->
         [method |-> "POST", body |-> action.eventData]
    [] action.type = "edit" ->
         [method |-> "PATCH",
          body |-> [eventId |-> action.eventId, calendarId |-> action.calendarId,
                    start |-> action.original.start, end |-> action.original.end]]
    [] action.type = "move" ->
         [method |-> "PATCH",
          body |-> [eventId |-> action.eventId, calendarId |-> action.calendarId,
                    start |-> action.originalStart, end |-> action.originalEnd]]

\* executeUndoBegin reporting success when there was nothing to undo.
executeUndoBegin_emptyIsSuccess(stack) ==
  LET popped == popUndo(stack)
  IN IF popped.action = Undefined
       THEN [stack |-> popped.stack, returned |-> TRUE, ret |-> TRUE, calls |-> {}]
       ELSE [stack |-> popped.stack, returned |-> FALSE, ret |-> Undefined,
             calls |-> {[action |-> popped.action, call |-> InverseCall(popped.action)]}]

\* executeUndo up to its await: pops, returns false at once when there was
\* nothing to pop, and otherwise issues the inverse call.
executeUndoBegin(stack) ==
  LET popped == popUndo(stack)
  IN IF popped.action = Undefined
       THEN [stack |-> popped.stack, returned |-> TRUE, ret |-> FALSE, calls |-> {}]
       ELSE [stack |-> popped.stack, returned |-> FALSE, ret |-> Undefined,
             calls |-> {[action |-> popped.action, call |-> InverseCall(popped.action)]}]

\* How an awaited fetch can end: the promise resolves with an ok response,
\* resolves with an error status, or rejects (the network failed).
FetchOutcomes == {"ok", "errorStatus", "rejected"}

\* executeUndo after its await: true once the promise resolved (the response
\* is not looked at), false from the catch block when it rejected.
executeUndoResult(outcome) == IF outcome = "rejected" THEN FALSE ELSE TRUE

Top(stack) == IF stack = <<>> THEN Undefined ELSE stack[Len(stack)]

InitUndo ==
  /\ dayEvents = <<>>
  /\ eventLayouts = getEventsWithLayout(<<>>)
  /\ dayViewLayouts = DayView_getEventsWithLayout(<<>>)
  /\ undoStack = <<>>
  /\ pendingCalls = {}
  /\ mutations = 0
  /\ unbounded = <<>>
  /\ lastOp = [op |-> "none"]
  /\ week = IdleWeek
  /\ events = {}
  /\ dnd = "none"
  /\ pressTarget = Null
  /\ rescheduled = FALSE
  /\ store = <<>>
  /\ journal = Null
  /\ storedRules = Null
  /\ colorArgs = Null
  /\ offset = 0

\* A mutating intent is issued and its entry pushed.
PushUndo ==
  /\ mutations < MaxMutations
  /\ LET action == UndoActionFor(mutations + 1)
     IN /\ undoStack' = pushUndo(undoStack, action)
        /\ unbounded' = Append(unbounded, action)
        /\ lastOp' = [op |-> "pushUndo", before |-> undoStack, action |-> action]
  /\ mutations' = mutations + 1
  /\ UNCHANGED <<pendingCalls, layoutVars, weekVars, remoteVars, pureVars>>

\* The session may take MaxUndos entries off the stack; popping an empty
\* stack is always possible.
MayUndo == undoStack = <<>> \/ mutations - Len(unbounded) < MaxUndos

PopUndo ==
  /\ MayUndo
  /\ LET popped == popUndo(undoStack)
     IN /\ undoStack' = popped.stack
        /\ lastOp' = [op |-> "popUndo", before |-> undoStack, ret |-> popped.action,
                      reference |-> Top(unbounded)]
  /\ unbounded' = IF unbounded = <<>> THEN unbounded
                  ELSE SubSeq(unbounded, 1, Len(unbounded) - 1)
  /\ UNCHANGED <<pendingCalls, mutations, layoutVars, weekVars, remoteVars, pureVars>>

\* executeUndo is called and runs to its await (or to its early return).
ExecuteUndo ==
  /\ MayUndo
  /\ Cardinality(pendingCalls) < MaxPending
  /\ LET begun == executeUndoBegin(undoStack)
     IN /\ undoStack' = begun.stack
        /\ pendingCalls' = pendingCalls \cup begun.calls
        /\ lastOp' = [op |-> "executeUndo", before |-> undoStack, returned |-> begun.returned,
                      ret |-> begun.ret, calls |-> begun.calls,
                      pendingBefore |-> pendingCalls]
  /\ unbounded' = IF unbounded = <<>> THEN unbounded
                  ELSE SubSeq(unbounded, 1, Len(unbounded) - 1)
  /\ UNCHANGED <<mutations, layoutVars, weekVars, remoteVars, pureVars>>

\* An awaited inverse call ends and executeUndo returns.
ExecuteUndoSettle ==
  /\ \E pending \in pendingCalls : \E outcome \in FetchOutcomes :
        /\ pendingCalls' = pendingCalls \ {pending}
        /\ lastOp' = [op |-> "executeUndoSettle", before |-> undoStack,
                      action |-> pending.action, outcome |-> outcome,
                      ret |-> executeUndoResult(outcome),
                      pendingBefore |-> pendingCalls]
  /\ UNCHANGED <<undoStack, mutations, unbounded, layoutVars, weekVars, remoteVars, pureVars>>

NextUndo == PushUndo \/ PopUndo \/ ExecuteUndo \/ ExecuteUndoSettle

SpecUndo == InitUndo /\ [][NextUndo]_vars

-----------------------------------------------------------------------------
(* Properties of the undo history *)

Range(stack) == {stack[i] : i \in 1..Len(stack)}

IsSuffix(short, long) ==
  /\ Len(short) <= Len(long)
  /\ short = SubSeq(long, Len(long) - Len(short) + 1, Len(long))

\* C7: after any sequence of pushUndo, popUndo and executeUndo calls the undo
\* stack holds at most 10 entries.
C7_UndoStackBounded == Len(undoStack) <= 10

\* A push onto a full stack has just been made.
C7_Witness ==
  /\ lastOp.op = "pushUndo"
  /\ Len(lastOp.before) = 10
  /\ Len(undoStack) = 10

\* C8: popUndo on an empty stack returns undefined and leaves the stack
\* empty; executeUndo on an empty stack returns false and issues no call.
C8_EmptyStack ==
  /\ (lastOp.op = "popUndo" /\ lastOp.before = <<>>) =>
        lastOp.ret = Undefined /\ undoStack = <<>>
  /\ (lastOp.op = "executeUndo" /\ lastOp.before = <<>>) =>
        /\ lastOp.returned /\ lastOp.ret = FALSE
        /\ lastOp.calls = {}
        /\ undoStack = <<>>

\* executeUndo has just run on a stack that pops had emptied.
C8_Witness ==
  /\ lastOp.op = "executeUndo"
  /\ lastOp.before = <<>>
  /\ mutations > 0

\* C9: the bounded stack refines an unbounded LIFO stack: its contents are
\* the most recent end of the unbounded stack, a push that overflows discards
\* exactly the oldest entry, and popUndo on a non-empty stack returns the
\* most recently pushed entry not yet popped.
C9_RefinesUnboundedStack ==
  /\ IsSuffix(undoStack, unbounded)
  /\ (lastOp.op = "pushUndo" /\ Len(lastOp.before) = 10) =>
        undoStack = Append(Tail(lastOp.before), lastOp.action)
  /\ (lastOp.op = "popUndo" /\ lastOp.before # <<>>) =>
        /\ lastOp.ret = lastOp.reference
        /\ undoStack = SubSeq(lastOp.before, 1, Len(lastOp.before) - 1)

\* An entry has just been popped from a stack that had overflowed.
C9_Witness ==
  /\ lastOp.op = "popUndo"
  /\ lastOp.before # <<>>
  /\ Len(unbounded) > Len(undoStack)

\* C10: executeUndo on a non-empty stack consumes exactly one entry whatever
\* the outcome of the inverse call: the stack is one entry shorter once it
\* has popped, and the entry is not on the stack while the call is awaited
\* nor after it succeeded or failed.
C10_ExecuteUndoConsumesEntry ==
  /\ (lastOp.op = "executeUndo" /\ lastOp.before # <<>>) =>
        /\ Len(undoStack) = Len(lastOp.before) - 1
        /\ \A pending \in lastOp.calls : pending.action = Top(lastOp.before)
  /\ \A pending \in pendingCalls : pending.action \notin Range(undoStack)
  /\ lastOp.op = "executeUndoSettle" =>
        /\ undoStack = lastOp.before
        /\ lastOp.action \notin Range(undoStack)

\* The inverse call of an executeUndo has just failed while other entries
\* were on the stack.
C10_Witness ==
  /\ lastOp.op = "executeUndoSettle"
  /\ lastOp.outcome = "rejected"
  /\ undoStack # <<>>

\* The method of the one call the claim C11 names for each kind of entry.
MethodNamedFor(type) ==
  CASE type = "create" -> "DELETE"
    [] type = "delete" -> "POST"
    [] type = "edit" -> "PATCH"
    [] type = "move" -> "PATCH"

\* C11: executeUndo issues exactly one remote call per consumed entry, chosen
\* by the entry's kind (DELETE for create, POST for delete, PATCH for edit and
\* for move); it never issues more than one call nor a call of another kind,
\* and issues none when the awaited call ends.
C11_OneInverseCallPerEntry ==
  /\ (lastOp.op = "executeUndo" /\ lastOp.before # <<>>) =>
        /\ Cardinality(lastOp.calls) = 1
        /\ \A pending \in lastOp.calls :
              /\ pending.action = Top(lastOp.before)
              /\ pending.call.method = MethodNamedFor(pending.action.type)
        /\ pendingCalls = lastOp.pendingBefore \cup lastOp.calls
        /\ Cardinality(pendingCalls) = Cardinality(lastOp.pendingBefore) + 1
  /\ lastOp.op = "executeUndoSettle" =>
        /\ pendingCalls \subseteq lastOp.pendingBefore
        /\ Cardinality(pendingCalls) = Cardinality(lastOp.pendingBefore) - 1

\* executeUndo has just consumed a `move' entry while the call of an earlier
\* undo was still awaited.
C11_Witness ==
  /\ lastOp.op = "executeUndo"
  /\ lastOp.before # <<>>
  /\ Top(lastOp.before).type = "move"
  /\ lastOp.pendingBefore # {}
  /\ Cardinality(pendingCalls) = 2

\* C12: executeUndo reports the outcome of the inverse call as its boolean
\* result: true when the store accepted the call, false whenever the call
\* failed, an answer with an error status (400, 401, 500) included.
C12_ResultReportsOutcome ==
  lastOp.op = "executeUndoSettle" => (lastOp.ret = TRUE <=> lastOp.outcome = "ok")

-----------------------------------------------------------------------------
(* The week view's gestures (WeekView): drag on the grid to create an       *)
(* event, drag an event to reschedule it.                                   *)
(*                                                                          *)
(* A Date is modelled by its instant, in minutes since midnight of day 0;   *)
(* a date-time string by its instant and the form it is written in (with a  *)
(* zone offset, as the store returns it, or in UTC as toISOString writes    *)
(* it).  Vertical positions are measured in fifths of a CSS pixel, so that  *)
(* every minute of the day is the offset of some position.                  *)

HOUR_HEIGHT == 48          \* const HOUR_HEIGHT = 48
CreateThreshold == 15      \* endMinutes - startMinutes >= 15 in handleMouseUp

Min(a, b) == IF a <= b THEN a ELSE b

\* The day columns pointer events are drawn from.
Days == {0, 1}

\* The vertical pointer positions events are drawn from: 10:07, 10:19 and
\* 15:05 below the top of the column, and its bottom edge.
PointerYs == {2428, 2476, 3620, 5810}

\* new Date(day) followed by setHours(h, m, 0, 0), h * 60 + m = minutes
SetHours(day, minutes) == day * MinutesPerDay + minutes

\* date-fns parseISO: the instant a date-time string denotes.
parseISO(str) == str.t

\* Date.prototype.toISOString: the instant written in UTC.
toISOString(date) == [t |-> date, form |-> "utc"]

\* A date-time string as the store returns it.
OffsetString(date) == [t |-> date, form |-> "offset"]

\* Math.round(x / 5) for an integer x: halves round up.
RoundFifth(x) == (2 * x + 5) \div 10

\* getMinutesFromY snapping to multiples of 15.
getMinutesFromY_snap15(y, rectTop) ==
  LET relativeY == y - rectTop
      minutes == (relativeY * 60) \div (HOUR_HEIGHT * 5)
  IN Max(0, Min(24 * 60, ((2 * minutes + 15) \div 30) * 15))

\* getMinutesFromY without the rounding to 5 minutes.
getMinutesFromY_noSnap(y, rectTop) ==
  LET relativeY == y - rectTop
      minutes == (relativeY * 60) \div (HOUR_HEIGHT * 5)
  IN Max(0, Min(24 * 60, minutes))

\* getMinutesFromY: the offset in minutes, floored, then snapped to the
\* nearest multiple of 5 and clamped to the day.
getMinutesFromY(y, rectTop) ==
  LET relativeY == y - rectTop
      minutes == (relativeY * 60) \div (HOUR_HEIGHT * 5)
  IN Max(0, Min(24 * 60, RoundFifth(minutes) * 5))

\* handleMouseDown(e, day)
handleMouseDown(w, day, y) ==
  LET minutes == getMinutesFromY(y, 0)
  IN [w EXCEPT !.isDragging = TRUE,
               !.dragStart = [day |-> day, minutes |-> minutes],
               !.dragEnd = [minutes |-> minutes],
               !.dragDayRef = [day |-> day]]

\* handleMouseMove(e)
handleMouseMove(w, y) ==
  IF ~w.isDragging \/ w.dragStart = Null
    THEN w
    ELSE [w EXCEPT !.dragEnd = [minutes |-> getMinutesFromY(y, 0)]]

\* draggingEvent.calendarId || 'primary'
CalendarIdOf(event) ==
  IF "calendarId" \in DOMAIN event THEN event.calendarId ELSE "primary"

\* handleDrop keeping the event's end where it was.
handleDrop_keepEnd(w, stack) ==
  LET newStart == SetHours(w.dropTarget.day, w.dropTarget.minutes)
      newEnd == parseISO(w.draggingEvent.end.dateTime)
      action == [type |-> "move", eventId |-> w.draggingEvent.id,
                 calendarId |-> CalendarIdOf(w.draggingEvent),
                 originalStart |-> w.draggingEvent.start.dateTime,
                 originalEnd |-> w.draggingEvent.end.dateTime]
      call == [method |-> "PATCH",
               body |-> [eventId |-> w.draggingEvent.id,
                         calendarId |-> CalendarIdOf(w.draggingEvent),
                         start |-> toISOString(newStart),
                         end |-> toISOString(newEnd)]]
  IN [week |-> [w EXCEPT !.draggingEvent = Null, !.dropTarget = Null],
      stack |-> pushUndo(stack, action),
      effects |-> <<[effect |-> "pushUndo", action |-> action],
                    [effect |-> "fetch", call |-> call]>>]

\* A drop that pushes its undo entry twice.
handleDrop_pushTwice(w, stack) ==
  LET newStart == SetHours(w.dropTarget.day, w.dropTarget.minutes)
      newEnd == newStart + parseISO(w.draggingEvent.end.dateTime)
                         - parseISO(w.draggingEvent.start.dateTime)
      action == [type |-> "move", eventId |-> w.draggingEvent.id,
                 calendarId |-> CalendarIdOf(w.draggingEvent),
                 originalStart |-> w.draggingEvent.start.dateTime,
                 originalEnd |-> w.draggingEvent.end.dateTime]
      call == [method |-> "PATCH",
               body |-> [eventId |-> w.draggingEvent.id,
                         calendarId |-> CalendarIdOf(w.draggingEvent),
                         start |-> toISOString(newStart),
                         end |-> toISOString(newEnd)]]
  IN [week |-> [w EXCEPT !.draggingEvent = Null, !.dropTarget = Null],
      stack |-> pushUndo(pushUndo(stack, action), action),
      effects |-> <<[effect |-> "pushUndo", action |-> action],
                    [effect |-> "pushUndo", action |-> action],
                    [effect |-> "fetch", call |-> call]>>]

\* The first branch of handleMouseUp: the drop of a dragged event.  What it
\* does to the outside is listed in program order in `effects'.
handleDrop(w, stack) ==
  LET oldStart == parseISO(w.draggingEvent.start.dateTime)
      oldEnd == parseISO(w.draggingEvent.end.dateTime)
      duration == oldEnd - oldStart
      newStart == SetHours(w.dropTarget.day, w.dropTarget.minutes)
      newEnd == newStart + duration
      action == [type |-> "move", eventId |-> w.draggingEvent.id,
                 calendarId |-> CalendarIdOf(w.draggingEvent),
                 originalStart |-> w.draggingEvent.start.dateTime,
                 originalEnd |-> w.draggingEvent.end.dateTime]
      call == [method |-> "PATCH",
               body |-> [eventId |-> w.draggingEvent.id,
                         calendarId |-> CalendarIdOf(w.draggingEvent),
                         start |-> toISOString(newStart),
                         end |-> toISOString(newEnd)]]
  IN [week |-> [w EXCEPT !.draggingEvent = Null, !.dropTarget = Null],
      stack |-> pushUndo(stack, action),
      effects |-> <<[effect |-> "pushUndo", action |-> action],
                    [effect |-> "fetch", call |-> call]>>]

\* handleRelease asking for a range of more than 15 minutes.
handleRelease_strictThreshold(w, stack) ==
  LET pressed == w.isDragging /\ w.dragStart # Null /\ w.dragEnd # Null /\ w.dragDayRef # Null
      startMinutes == Min(w.dragStart.minutes, w.dragEnd.minutes)
      endMinutes == Max(w.dragStart.minutes, w.dragEnd.minutes)
      modal == IF pressed /\ endMinutes - startMinutes > CreateThreshold
                 THEN [startTime |-> SetHours(w.dragDayRef.day, startMinutes),
                       endTime |-> SetHours(w.dragDayRef.day, endMinutes)]
                 ELSE w.createModalData
  IN [week |-> [w EXCEPT !.createModalData = modal,
                         !.isDragging = FALSE, !.dragStart = Null,
                         !.dragEnd = Null, !.dragDayRef = Null],
      stack |-> stack,
      effects |-> <<>>]

\* handleRelease that resets the gesture only when it emits an intent.
handleRelease_resetOnIntent(w, stack) ==
  LET pressed == w.isDragging /\ w.dragStart # Null /\ w.dragEnd # Null /\ w.dragDayRef # Null
      startMinutes == Min(w.dragStart.minutes, w.dragEnd.minutes)
      endMinutes == Max(w.dragStart.minutes, w.dragEnd.minutes)
  IN IF pressed /\ endMinutes - startMinutes >= CreateThreshold
       THEN [week |-> [w EXCEPT !.createModalData =
                                   [startTime |-> SetHours(w.dragDayRef.day, startMinutes),
                                    endTime |-> SetHours(w.dragDayRef.day, endMinutes)],
                                !.isDragging = FALSE, !.dragStart = Null,
                                !.dragEnd = Null, !.dragDayRef = Null],
             stack |-> stack,
             effects |-> <<>>]
       ELSE [week |-> w, stack |-> stack, effects |-> <<>>]

\* The rest of handleMouseUp: the end of a create gesture.
handleRelease(w, stack) ==
  LET pressed == w.isDragging /\ w.dragStart # Null /\ w.dragEnd # Null /\ w.dragDayRef # Null
      startMinutes == Min(w.dragStart.minutes, w.dragEnd.minutes)
      endMinutes == Max(w.dragStart.minutes, w.dragEnd.minutes)
      modal == IF pressed /\ endMinutes - startMinutes >= CreateThreshold
                 THEN [startTime |-> SetHours(w.dragDayRef.day, startMinutes),
                       endTime |-> SetHours(w.dragDayRef.day, endMinutes)]
                 ELSE w.createModalData
  IN [week |-> [w EXCEPT !.createModalData = modal,
                         !.isDragging = FALSE, !.dragStart = Null,
                         !.dragEnd = Null, !.dragDayRef = Null],
      stack |-> stack,
      effects |-> <<>>]

\* handleMouseUp()
handleMouseUp(w, stack) ==
  IF w.draggingEvent # Null /\ w.dropTarget # Null
    THEN handleDrop(w, stack)
    ELSE handleRelease(w, stack)

\* onDragStart of an event's element
onDragStart(w, event) == [w EXCEPT !.draggingEvent = event]

\* onDragOver of a day column
onDragOver(w, day, y) ==
  [w EXCEPT !.dropTarget = [day |-> day, minutes |-> getMinutesFromY(y, 0)]]

\* onDragEnd that clears the dragged event only.
onDragEnd_keepTarget(w) == [w EXCEPT !.draggingEvent = Null]

\* onDragEnd of an event's element
onDragEnd(w) == [w EXCEPT !.draggingEvent = Null, !.dropTarget = Null]

\* onClose of the create modal
onCloseCreateModal(w) == [w EXCEPT !.createModalData = Null]

\* The fetch calls among the effects of a handler.
CallsOf(effects) ==
  {effects[i].call : i \in {j \in 1..Len(effects) : effects[j].effect = "fetch"}}

-----------------------------------------------------------------------------
(* The week view driven by the browser's pointer and drag-and-drop events.  *)

MaxDrops == 1       \* reschedule drops in one session

\* The timed events the parent hands to the week view: a 60-minute event on
\* day 0 at 10:00 in the calendar "work", and a 90-minute event on day 1 at
\* 15:00 that carries no calendarId.
WeekEvents ==
  {[id |-> 1, calendarId |-> "work",
    start |-> [dateTime |-> OffsetString(600)], end |-> [dateTime |-> OffsetString(660)]],
   [id |-> 2,
    start |-> [dateTime |-> OffsetString(2340)], end |-> [dateTime |-> OffsetString(2430)]]}

\* The day column an event is rendered in: isSameDay(parseISO(startStr), day).
DayOf(event) == parseISO(event.start.dateTime) \div MinutesPerDay

\* The event as getEventPosition reads it: minutes of the day of start and end.
AsDayEvent(event) ==
  [id |-> event.id, timed |-> TRUE, hasEnd |-> TRUE,
   start |-> parseISO(event.start.dateTime) % MinutesPerDay,
   end |-> parseISO(event.end.dateTime) % MinutesPerDay]

\* The pointer at (day, y) is over the element of the event: top is
\* startMinutes / 60 * HOUR_HEIGHT px and height max(duration / 60 *
\* HOUR_HEIGHT, 24) px.
PointerOnEvent(event, day, y) ==
  LET pos == getEventPosition(AsDayEvent(event))
      top == (pos.startMinutes * HOUR_HEIGHT * 5) \div 60
      height == Max((pos.duration * HOUR_HEIGHT * 5) \div 60, 24 * 5)
  IN day = DayOf(event) /\ top <= y /\ y < top + height

\* The create modal is drawn over the grid: while it is open no pointer event
\* reaches the grid.
GridReachable == week.createModalData = Null

InitWeek ==
  /\ dayEvents = <<>>
  /\ eventLayouts = getEventsWithLayout(<<>>)
  /\ dayViewLayouts = DayView_getEventsWithLayout(<<>>)
  /\ undoStack = <<>>
  /\ pendingCalls = {}
  /\ mutations = 0
  /\ unbounded = <<>>
  /\ lastOp = [op |-> "none"]
  /\ week = IdleWeek
  /\ events = WeekEvents
  /\ dnd = "none"
  /\ pressTarget = Null
  /\ rescheduled = FALSE
  /\ store = <<>>
  /\ journal = Null
  /\ storedRules = Null
  /\ colorArgs = Null
  /\ offset = 0

weekFrame == <<layoutVars, mutations, unbounded, events, remoteVars, pureVars>>

\* mousedown on a day column, directly or bubbling up from an event's element.
MouseDown ==
  /\ dnd = "none" /\ GridReachable
  /\ \E day \in Days, y \in PointerYs :
       \E target \in {Null} \cup {[id |-> e.id] : e \in {x \in events : PointerOnEvent(x, day, y)}} :
          /\ week' = handleMouseDown(week, day, y)
          /\ pressTarget' = target
          /\ lastOp' = [op |-> "mouseDown", day |-> day, y |-> y]
  /\ UNCHANGED <<undoStack, pendingCalls, dnd, weekFrame>>
  /\ rescheduled' = FALSE

\* mousemove on a day column.
MouseMove ==
  /\ dnd = "none" /\ GridReachable
  /\ \E day \in Days, y \in PointerYs :
        /\ week' = handleMouseMove(week, y)
        /\ lastOp' = [op |-> "mouseMove", day |-> day, y |-> y]
  /\ UNCHANGED <<undoStack, pendingCalls, dnd, pressTarget, weekFrame>>
  /\ UNCHANGED rescheduled

\* What a handler calling handleMouseUp does to the state.
RunHandleMouseUp(op) ==
  LET done == handleMouseUp(week, undoStack)
  IN /\ week' = done.week
     /\ undoStack' = done.stack
     /\ pendingCalls' =
          pendingCalls \cup {[action |-> Null, call |-> c] : c \in CallsOf(done.effects)}
     /\ lastOp' = [op |-> op, before |-> week, stackBefore |-> undoStack,
                   pendingBefore |-> pendingCalls, effects |-> done.effects]

\* mouseup on the grid.
MouseUp ==
  /\ dnd = "none" /\ GridReachable
  /\ RunHandleMouseUp("mouseUp")
  /\ pressTarget' = Null
  /\ UNCHANGED <<dnd, weekFrame>>
  /\ UNCHANGED rescheduled

\* mouseleave of the grid.
MouseLeave ==
  /\ dnd = "none" /\ GridReachable
  /\ RunHandleMouseUp("mouseLeave")
  /\ pressTarget' = Null
  /\ UNCHANGED <<dnd, weekFrame>>
  /\ UNCHANGED rescheduled

\* dragstart on the element of the event the button went down on.  From here
\* to dragend the browser delivers no mouse events.
DragStart ==
  /\ dnd = "none" /\ pressTarget # Null
  /\ \E e \in events :
        /\ [id |-> e.id] = pressTarget
        /\ week' = onDragStart(week, e)
        /\ lastOp' = [op |-> "dragStart", event |-> e]
  /\ dnd' = "dragging"
  /\ UNCHANGED <<undoStack, pendingCalls, pressTarget, weekFrame>>
  /\ UNCHANGED rescheduled

\* dragover on a day column.
DragOver ==
  /\ dnd = "dragging"
  /\ \E day \in Days, y \in PointerYs :
        /\ week' = onDragOver(week, day, y)
        /\ lastOp' = [op |-> "dragOver", day |-> day, y |-> y]
  /\ UNCHANGED <<undoStack, pendingCalls, dnd, pressTarget, weekFrame>>
  /\ UNCHANGED rescheduled

\* drop on a day column, which the drag has been over.
Drop ==
  /\ dnd = "dragging" /\ week.dropTarget # Null
  /\ Len(undoStack) < MaxDrops
  /\ RunHandleMouseUp("drop")
  /\ dnd' = "dropped"
  /\ UNCHANGED <<pressTarget, weekFrame>>
  /\ rescheduled' = TRUE

\* dragend on the dragged element, after a drop or without one.
DragEnd ==
  /\ dnd \in {"dragging", "dropped"}
  /\ week' = onDragEnd(week)
  /\ lastOp' = [op |-> "dragEnd", before |-> week, dropped |-> dnd = "dropped"]
  /\ dnd' = "none"
  /\ pressTarget' = Null
  /\ UNCHANGED <<undoStack, pendingCalls, weekFrame>>
  /\ UNCHANGED rescheduled

\* The create modal is closed.
CloseCreateModal ==
  /\ week.createModalData # Null
  /\ week' = onCloseCreateModal(week)
  /\ lastOp' = [op |-> "closeCreateModal", before |-> week]
  /\ UNCHANGED <<undoStack, pendingCalls, dnd, pressTarget, weekFrame>>
  /\ UNCHANGED rescheduled

\* A callback that takes the entry back off the stack when the call failed.
moveSettled_popOnFailure(outcome, stack) ==
  [stack |-> IF outcome = "ok" THEN stack ELSE popUndo(stack).stack,
   notified |-> outcome = "ok", alerted |-> FALSE]

\* The `then' callback of the reschedule's fetch: onEventChange is called when
\* the response is ok, and nothing is done otherwise; a rejected fetch has no
\* handler.
moveSettled(outcome, stack) ==
  [stack |-> stack, notified |-> outcome = "ok", alerted |-> FALSE]

\* The update call of a reschedule ends.
MoveSettle ==
  /\ \E pending \in pendingCalls : \E outcome \in FetchOutcomes :
        LET settled == moveSettled(outcome, undoStack)
        IN /\ pending.action = Null
           /\ pendingCalls' = pendingCalls \ {pending}
           /\ undoStack' = settled.stack
           /\ lastOp' = [op |-> "moveSettle", before |-> week, stackBefore |-> undoStack,
                         pendingBefore |-> pendingCalls, call |-> pending.call,
                         outcome |-> outcome, notified |-> settled.notified,
                         alerted |-> settled.alerted]
  /\ UNCHANGED <<week, dnd, pressTarget, weekFrame>>
  /\ UNCHANGED rescheduled

NextWeek ==
  \/ MouseDown \/ MouseMove \/ MouseUp \/ MouseLeave
  \/ DragStart \/ DragOver \/ Drop \/ DragEnd
  \/ CloseCreateModal \/ MoveSettle

SpecWeek == InitWeek /\ [][NextWeek]_vars

-----------------------------------------------------------------------------
(* Properties of the week view's gestures *)

\* The create controller is pressed: isDragging with an anchor.
Pressed(w) == w.isDragging /\ w.dragStart # Null

\* The range a pressed controller spans: min and max of anchor and live offset.
RangeStart(w) == Min(w.dragStart.minutes, w.dragEnd.minutes)

RangeEnd(w) == Max(w.dragStart.minutes, w.dragEnd.minutes)

\* The create intent the claims expect from a release in state w: the range
\* on the anchor day when it spans 15 minutes or more, and none otherwise.
ExpectedIntent(w) ==
  IF RangeEnd(w) - RangeStart(w) >= 15
    THEN [startTime |-> w.dragStart.day * 1440 + RangeStart(w),
          endTime |-> w.dragStart.day * 1440 + RangeEnd(w)]
    ELSE Null

\* C15: on pointer-up while a create gesture is pressed a create intent is
\* emitted if and only if max(anchor, live) - min(anchor, live) >= 15; its
\* start and end are the min and max of the two offsets on the anchor day,
\* which a pointer-move over another day column does not change; a shorter
\* range emits nothing, and neither case issues a call or reports an error.
C15_CreateIntentIffRangeAtLeast15 ==
  [][/\ (lastOp'.op = "mouseUp" /\ Pressed(week)) =>
           /\ week'.createModalData = ExpectedIntent(week)
           /\ lastOp'.effects = <<>>
           /\ pendingCalls' = pendingCalls
     /\ (lastOp'.op = "mouseMove" /\ Pressed(week)) =>
           /\ week'.dragStart = week.dragStart
           /\ week'.dragDayRef = [day |-> week.dragStart.day]
           /\ week'.createModalData = week.createModalData]_vars

\* A pointer-up has just emitted the intent of a range of exactly 15 minutes.
C15_Witness ==
  /\ lastOp.op = "mouseUp"
  /\ Pressed(lastOp.before)
  /\ RangeEnd(lastOp.before) - RangeStart(lastOp.before) = 15
  /\ week.createModalData # Null
  /\ week.createModalData.endTime - week.createModalData.startTime = 15

\* C16: the create gesture snaps to a 15-minute grid: the anchor and the live
\* offset are always multiples of 15, so every emitted create range starts and
\* ends on a multiple of 15; a press at 10:07 released at 10:19 emits a create
\* intent for 10:00 to 10:15.
C16_CreateSnapsToQuarterHours ==
  /\ week.dragStart # Null => week.dragStart.minutes % 15 = 0
  /\ week.dragEnd # Null => week.dragEnd.minutes % 15 = 0
  /\ week.createModalData # Null =>
        /\ week.createModalData.startTime % 15 = 0
        /\ week.createModalData.endTime % 15 = 0
  /\ (lastOp.op = "mouseDown" /\ lastOp.y = 2428) => week.dragStart.minutes = 600
  /\ (lastOp.op = "mouseMove" /\ lastOp.y = 2476 /\ Pressed(week)) =>
        week.dragEnd.minutes = 615

\* C17: a create gesture can never stay stuck: whenever the controller is
\* pressed, the next pointer-up or pointer-leave on the grid has the same
\* effect (the same intent or none, from the last live offset) and returns
\* the controller to idle with anchor, live offset and anchor day cleared.
C17_ReleaseOrLeaveReturnsToIdle ==
  (lastOp.op \in {"mouseUp", "mouseLeave"} /\ Pressed(lastOp.before)) =>
     /\ ~week.isDragging
     /\ week.dragStart = Null
     /\ week.dragEnd = Null
     /\ week.dragDayRef = Null
     /\ week.createModalData = ExpectedIntent(lastOp.before)
     /\ lastOp.effects = <<>>
     /\ undoStack = lastOp.stackBefore
     /\ pendingCalls = lastOp.pendingBefore

\* The pointer has just left the grid while the controller was pressed on a
\* range too short for an intent.
C17_Witness ==
  /\ lastOp.op = "mouseLeave"
  /\ Pressed(lastOp.before)
  /\ week.createModalData = Null
  /\ ~week.isDragging

\* C18: in no reachable state are a create gesture and a reschedule gesture
\* active together: the create controller is never pressed (isDragging with
\* an anchor) while an event is being dragged (draggingEvent set).
C18_GesturesExclusive == ~(Pressed(week) /\ week.draggingEvent # Null)

\* C21: a reschedule drag that ends without a drop (drag-end with no drop, the
\* pointer having left the grid or not) issues no update call and pushes no
\* undo entry, and leaves draggingEvent and dropTarget cleared; drag-over
\* events alone never issue a remote call.
C21_DragWithoutDropChangesNothing ==
  [][/\ (dnd = "dragging" /\ dnd' # "dropped") =>
           /\ pendingCalls' \subseteq pendingCalls
           /\ undoStack' = undoStack
     /\ lastOp'.op = "dragOver" =>
           /\ pendingCalls' = pendingCalls
           /\ undoStack' = undoStack
     /\ (dnd = "dragging" /\ lastOp'.op = "dragEnd") =>
           /\ week'.draggingEvent = Null
           /\ week'.dropTarget = Null
           /\ pendingCalls' = pendingCalls
           /\ undoStack' = undoStack]_vars

\* A drag that had been over the grid has just ended without a drop.
C21_Witness ==
  /\ lastOp.op = "dragEnd"
  /\ ~lastOp.dropped
  /\ lastOp.before.draggingEvent # Null
  /\ lastOp.before.dropTarget # Null
  /\ week.draggingEvent = Null
  /\ week.dropTarget = Null

\* C22: when the update call of a reschedule fails (error status or network
\* failure), a user-visible error message is surfaced and no call is issued
\* again.
C22_FailedMoveSurfacesError ==
  (lastOp.op = "moveSettle" /\ lastOp.outcome # "ok") =>
    /\ lastOp.alerted
    /\ pendingCalls = lastOp.pendingBefore \ {[action |-> Null, call |-> lastOp.call]}

\* C30: during a reschedule drag the drop target is snapped to a 5-minute
\* grid: after every drag-over dropTarget.minutes is a multiple of 5 within
\* [0, 1440] and dropTarget.day is the day column under the pointer, and the
\* new start of every reschedule falls on a 5-minute boundary.
C30_DropTargetOnFiveMinuteGrid ==
  /\ lastOp.op = "dragOver" =>
        /\ week.dropTarget # Null
        /\ week.dropTarget.day = lastOp.day
        /\ week.dropTarget.minutes % 5 = 0
        /\ week.dropTarget.minutes >= 0
        /\ week.dropTarget.minutes <= 1440
  /\ lastOp.op = "drop" =>
        \A call \in CallsOf(lastOp.effects) : parseISO(call.body.start) % 5 = 0

\* The pointer was at the offset of 10:07 on day 1 at the last drag-over, and
\* the drop target is 10:05 on day 1.
C30_Witness ==
  /\ lastOp.op = "dragOver"
  /\ lastOp.day = 1
  /\ lastOp.y = 2428
  /\ week.draggingEvent # Null
  /\ week.dropTarget = [day |-> 1, minutes |-> 605]

\* C35: a reschedule gesture never yields a create intent: after a drop, no
\* pointer-up or pointer-leave (nor a pointer-move before them) opens a create
\* intent unless a pointer-down came after the drop.
C35_RescheduleYieldsNoCreateIntent ==
  (lastOp.op \in {"mouseMove", "mouseUp", "mouseLeave"} /\ rescheduled) =>
     week.createModalData = Null

\* How many fetch calls a handler issued.
FetchCount(effects) ==
  Cardinality({i \in 1..Len(effects) : effects[i].effect = "fetch"})

\* C36: each completed reschedule gesture issues exactly one update call and
\* pushes exactly one undo entry: the drop issues one call and pushes one
\* entry, and no other step (the drag-end, a pointer-up or pointer-leave after
\* it) issues a call or pushes an entry.
C36_OneCallAndOneEntryPerDrop ==
  [][IF lastOp'.op = "drop"
       THEN /\ FetchCount(lastOp'.effects) = 1
            /\ pendingCalls \subseteq pendingCalls'
            /\ \E call \in pendingCalls' : pendingCalls' = pendingCalls \cup {call}
            /\ Len(undoStack') = Len(undoStack) + 1
            /\ SubSeq(undoStack', 1, Len(undoStack)) = undoStack
       ELSE /\ "effects" \in DOMAIN lastOp' => FetchCount(lastOp'.effects) = 0
            /\ pendingCalls' \subseteq pendingCalls
            /\ undoStack' = undoStack]_vars

\* After a drop and its drag-end the pointer left the grid, the controller
\* still pressed from the mousedown that began the drag; the stack holds the
\* one entry of the drop.
C36_Witness ==
  /\ lastOp.op = "mouseLeave"
  /\ rescheduled
  /\ lastOp.before.isDragging
  /\ Len(undoStack) = 1
  /\ lastOp.stackBefore = undoStack

\* C19: rescheduling never changes duration: for every completed drop
\* newStart is the drop target's day at the drop target's minutes and newEnd -
\* newStart equals the dragged event's original end - start exactly; a
\* 60-minute event dropped at 15:05 gets newStart 15:05 and newEnd 16:05.
C19_DropPreservesDuration ==
  lastOp.op = "drop" =>
     /\ Cardinality(CallsOf(lastOp.effects)) = 1
     /\ \A call \in CallsOf(lastOp.effects) :
          LET original == lastOp.before.draggingEvent
              target == lastOp.before.dropTarget
          IN /\ call.body.start.t = target.day * 1440 + target.minutes
             /\ call.body.end.t - call.body.start.t =
                   original.end.dateTime.t - original.start.dateTime.t
             /\ (original.end.dateTime.t - original.start.dateTime.t = 60
                   /\ target.minutes = 905) =>
                   /\ call.body.start.t = target.day * 1440 + 905
                   /\ call.body.end.t = target.day * 1440 + 965

\* The 60-minute event has just been dropped at 15:05.
C19_Witness ==
  /\ lastOp.op = "drop"
  /\ lastOp.before.draggingEvent.id = 1
  /\ lastOp.before.dropTarget.minutes = 905
  /\ pendingCalls # {}

\* C20: on every completed drop the `move' entry, carrying the dragged event's
\* id, calendarId and original start and end, is pushed before the update call
\* is issued and before its outcome is known; the entry stays on the stack
\* also when the update call later fails.
C20_MoveEntryPushedBeforeCall ==
  /\ lastOp.op = "drop" =>
        LET original == lastOp.before.draggingEvent
            entry == [type |-> "move", eventId |-> original.id,
                      calendarId |-> IF "calendarId" \in DOMAIN original
                                       THEN original.calendarId ELSE "primary",
                      originalStart |-> original.start.dateTime,
                      originalEnd |-> original.end.dateTime]
        IN /\ Len(lastOp.effects) = 2
           /\ lastOp.effects[1] = [effect |-> "pushUndo", action |-> entry]
           /\ lastOp.effects[2].effect = "fetch"
           /\ undoStack = Append(lastOp.stackBefore, entry)
           /\ [action |-> Null, call |-> lastOp.effects[2].call] \in pendingCalls
  /\ lastOp.op = "moveSettle" => undoStack = lastOp.stackBefore

\* The update call of a reschedule has just failed and its entry is on the
\* stack.
C20_Witness ==
  /\ lastOp.op = "moveSettle"
  /\ lastOp.outcome # "ok"
  /\ undoStack # <<>>
  /\ Top(undoStack).type = "move"
  /\ Top(undoStack).eventId = lastOp.call.body.eventId

-----------------------------------------------------------------------------
(* The events endpoint (app/api/events/route.ts) in front of the remote     *)
(* calendar, and the calls the week view and executeUndo send to it.        *)

MaxRemoteOps == 3   \* drops, recorded creations and undos in one session

\* The event the remote calendar holds at first: 60 minutes on day 0 at 10:00
\* in the calendar "work".
InitialStore ==
  [id \in {1} |->
     [id |-> 1, calendarId |-> "work",
      start |-> [dateTime |-> OffsetString(600)], end |-> [dateTime |-> OffsetString(660)]]]

\* Where the reschedule drags of this part end: day 0 at 15:05, day 1 at 10:07.
DropTargets == {[day |-> 0, y |-> 3620], [day |-> 1, y |-> 2428]}

\* What can become of one request: it is lost on the way (fetch rejects), it
\* arrives without a session, the calendar provider fails, or all is well.
RequestConditions == {"lost", "unauthorized", "unreachable", "fine"}

\* The events GET returns: every stored event, with its calendarId.
Snapshot(st) == {st[id] : id \in {k \in DOMAIN st : st[k] # Null}}

\* The provider holds the event under that calendar and id.
Holds(st, calendarId, eventId) ==
  /\ eventId \in DOMAIN st
  /\ st[eventId] # Null
  /\ st[eventId].calendarId = calendarId

\* What the endpoint receives from fetch('/api/events', {method, body}): the
\* URL carries no query string.
RequestOf(call) == [method |-> call.method, query |-> <<>>, body |-> call.body]

\* DELETE: eventId and calendarId come from the URL's search parameters.
DELETE(request, st, authorized, reachable) ==
  IF ~authorized THEN [status |-> 401, store |-> st]
  ELSE IF "eventId" \notin DOMAIN request.query THEN [status |-> 400, store |-> st]
  ELSE LET eventId == request.query.eventId
           calendarId == IF "calendarId" \in DOMAIN request.query
                           THEN request.query.calendarId ELSE "primary"
       IN IF reachable /\ Holds(st, calendarId, eventId)
            THEN [status |-> 200, store |-> [st EXCEPT ![eventId] = Null]]
            ELSE [status |-> 500, store |-> st]

\* PATCH: eventId, calendarId, start and end come from the JSON body; start
\* and end are written as {dateTime: ...} when present.
PATCH(request, st, authorized, reachable) ==
  IF ~authorized THEN [status |-> 401, store |-> st]
  ELSE IF "eventId" \notin DOMAIN request.body THEN [status |-> 400, store |-> st]
  ELSE LET eventId == request.body.eventId
           calendarId == IF "calendarId" \in DOMAIN request.body
                           THEN request.body.calendarId ELSE "primary"
           old == st[eventId]
           patched == [old EXCEPT
                         !.start = IF "start" \in DOMAIN request.body
                                     THEN [dateTime |-> request.body.start] ELSE old.start,
                         !.end = IF "end" \in DOMAIN request.body
                                   THEN [dateTime |-> request.body.end] ELSE old.end]
       IN IF reachable /\ Holds(st, calendarId, eventId)
            THEN [status |-> 200, store |-> [st EXCEPT ![eventId] = patched]]
            ELSE [status |-> 500, store |-> st]

\* The handler of the request's method.
Route(request, st, authorized, reachable) ==
  CASE request.method = "DELETE" -> DELETE(request, st, authorized, reachable)
    [] request.method = "PATCH" -> PATCH(request, st, authorized, reachable)

\* Response.ok: the status is in the range 200-299.
ResponseOk(status) == 200 <= status /\ status <= 299

\* What a request does under a condition: the store after it and how the
\* fetch ends at the client.
Serve(call, st, condition) ==
  IF condition = "lost"
    THEN [store |-> st, status |-> 0, outcome |-> "rejected"]
    ELSE LET reply == Route(RequestOf(call), st, condition # "unauthorized",
                            condition # "unreachable")
         IN [store |-> reply.store, status |-> reply.status,
             outcome |-> IF ResponseOk(reply.status) THEN "ok" ELSE "errorStatus"]

InitRemote ==
  /\ dayEvents = <<>>
  /\ eventLayouts = getEventsWithLayout(<<>>)
  /\ dayViewLayouts = DayView_getEventsWithLayout(<<>>)
  /\ undoStack = <<>>
  /\ pendingCalls = {}
  /\ mutations = 0
  /\ unbounded = <<>>
  /\ lastOp = [op |-> "none"]
  /\ week = IdleWeek
  /\ events = Snapshot(InitialStore)
  /\ dnd = "none"
  /\ pressTarget = Null
  /\ rescheduled = FALSE
  /\ store = InitialStore
  /\ journal = Null
  /\ storedRules = Null
  /\ colorArgs = Null
  /\ offset = 0

remoteFrame == <<layoutVars, unbounded, dnd, pressTarget, rescheduled, pureVars>>

\* The journal once something other than the undo of its reschedule happened.
Disturbed(j) == IF j = Null THEN j ELSE [j EXCEPT !.others = TRUE]

\* A caller that created the stored event records it: pushUndo of a `create'
\* entry with the event's id and calendar.
PushCreate ==
  /\ mutations < MaxRemoteOps
  /\ \E id \in DOMAIN store :
        /\ store[id] # Null
        /\ \A k \in 1..Len(undoStack) : undoStack[k].type # "create"
        /\ LET action == [type |-> "create", eventId |-> id,
                          calendarId |-> store[id].calendarId]
           IN /\ undoStack' = pushUndo(undoStack, action)
              /\ lastOp' = [op |-> "pushUndo", before |-> undoStack, action |-> action]
  /\ mutations' = mutations + 1
  /\ journal' = Disturbed(journal)
  /\ UNCHANGED <<pendingCalls, week, events, store, remoteFrame>>

\* A whole reschedule drag of an event of the view: dragstart on its element,
\* dragover and drop on a day column, dragend.
Reschedule ==
  /\ mutations < MaxRemoteOps
  /\ \E e \in events, target \in DropTargets :
        LET dragged == onDragOver(onDragStart(week, e), target.day, target.y)
            done == handleMouseUp(dragged, undoStack)
        IN /\ week' = onDragEnd(done.week)
           /\ undoStack' = done.stack
           /\ pendingCalls' = pendingCalls \cup
                 {[action |-> Null, call |-> c, serial |-> mutations + 1] :
                     c \in CallsOf(done.effects)}
           /\ journal' = [eventId |-> e.id,
                          pre |-> store[e.id],
                          fresh |-> pendingCalls = {} /\ store[e.id] = e,
                          moveSerial |-> mutations + 1, move |-> "pending",
                          undoSerial |-> 0, undo |-> "none",
                          others |-> FALSE]
           /\ lastOp' = [op |-> "reschedule", before |-> dragged,
                         stackBefore |-> undoStack, effects |-> done.effects]
  /\ mutations' = mutations + 1
  /\ UNCHANGED <<events, store, remoteFrame>>

\* executeUndo is called and runs to its await (or to its early return).
RemoteUndo ==
  /\ mutations < MaxRemoteOps
  /\ LET begun == executeUndoBegin(undoStack)
         own == /\ journal # Null
                /\ ~journal.others
                /\ journal.undo = "none"
                /\ begun.calls # {}
     IN /\ undoStack' = begun.stack
        /\ pendingCalls' = pendingCalls \cup
              {[action |-> c.action, call |-> c.call, serial |-> mutations + 1] :
                  c \in begun.calls}
        /\ journal' = IF own
                        THEN [journal EXCEPT !.undo = "pending",
                                             !.undoSerial = mutations + 1]
                        ELSE Disturbed(journal)
        /\ lastOp' = [op |-> "executeUndo", before |-> undoStack,
                      returned |-> begun.returned, ret |-> begun.ret,
                      calls |-> begun.calls, pendingBefore |-> pendingCalls]
  /\ mutations' = mutations + 1
  /\ UNCHANGED <<week, events, store, remoteFrame>>

\* A request reaches the endpoint (or is lost) and its fetch ends at the
\* client: the `then' callback of the reschedule, or the rest of executeUndo.
RemoteSettle ==
  /\ \E pending \in pendingCalls, condition \in RequestConditions :
        LET served == Serve(pending.call, store, condition)
        IN /\ store' = served.store
           /\ pendingCalls' = pendingCalls \ {pending}
           /\ undoStack' = IF pending.action = Null
                             THEN moveSettled(served.outcome, undoStack).stack
                             ELSE undoStack
           /\ journal' =
                IF journal = Null THEN journal
                ELSE IF pending.serial = journal.moveSerial
                  THEN [journal EXCEPT !.move = served.outcome]
                ELSE IF pending.serial = journal.undoSerial
                  THEN [journal EXCEPT !.undo = served.outcome]
                ELSE journal
           /\ lastOp' = [op |-> "remoteSettle", action |-> pending.action,
                         call |-> pending.call, condition |-> condition,
                         status |-> served.status, outcome |-> served.outcome,
                         storeBefore |-> store,
                         ret |-> IF pending.action = Null THEN Undefined
                                 ELSE executeUndoResult(served.outcome)]
  /\ UNCHANGED <<mutations, week, events, remoteFrame>>

\* The parent fetches the events again and hands the week view the new list.
Refresh ==
  /\ events # Snapshot(store)
  /\ events' = Snapshot(store)
  /\ lastOp' = [op |-> "refresh"]
  /\ UNCHANGED <<undoStack, pendingCalls, mutations, week, store, journal, remoteFrame>>

NextRemote == PushCreate \/ Reschedule \/ RemoteUndo \/ RemoteSettle \/ Refresh

SpecRemote == InitRemote /\ [][NextRemote]_vars

-----------------------------------------------------------------------------
(* Properties of the undo calls at the endpoint *)

\* C13: move then undo is a round trip: after a reschedule drop of event E
\* followed by executeUndo, the update call issued by the undo targets E's id
\* and calendarId and carries exactly E's pre-move start and end, so that when
\* both remote calls succeed the stored start and end of E equal their values
\* before the drag.
C13_MoveUndoRoundTrip ==
  /\ (lastOp.op = "executeUndo" /\ lastOp.before # <<>>
        /\ Top(lastOp.before).type = "move") =>
        \A c \in lastOp.calls :
           /\ c.call.method = "PATCH"
           /\ c.call.body.eventId = Top(lastOp.before).eventId
           /\ c.call.body.calendarId = Top(lastOp.before).calendarId
           /\ c.call.body.start = Top(lastOp.before).originalStart
           /\ c.call.body.end = Top(lastOp.before).originalEnd
  /\ lastOp.op = "reschedule" =>
        /\ Top(undoStack).eventId = lastOp.before.draggingEvent.id
        /\ Top(undoStack).calendarId = lastOp.before.draggingEvent.calendarId
        /\ Top(undoStack).originalStart = lastOp.before.draggingEvent.start.dateTime
        /\ Top(undoStack).originalEnd = lastOp.before.draggingEvent.end.dateTime
  /\ (journal # Null /\ journal.fresh /\ ~journal.others
        /\ journal.move = "ok" /\ journal.undo = "ok") =>
        /\ store[journal.eventId] # Null
        /\ store[journal.eventId].start = journal.pre.start
        /\ store[journal.eventId].end = journal.pre.end

\* C14: undoing a `create' entry deletes the created event: when the session
\* is authorized and the store reachable, executeUndo on an entry {create,
\* eventId, calendarId} results in the events endpoint deleting the event
\* with that eventId in that calendar.
C14_UndoCreateDeletesEvent ==
  (lastOp.op = "remoteSettle" /\ lastOp.action # Null /\ lastOp.condition = "fine") =>
     ((lastOp.action.type = "create"
         /\ Holds(lastOp.storeBefore, lastOp.action.calendarId, lastOp.action.eventId)) =>
         store[lastOp.action.eventId] = Null)

-----------------------------------------------------------------------------
(* Colour rules (colorRulesStorage) and the week view's getEventColor.      *)
(* A string whose characters the program looks at (a title, a keyword) is   *)
(* the sequence of its characters; a colour is only compared and returned   *)
(* and stays a string.  A JavaScript value read back from storage is a      *)
(* record [type |-> "array", items |-> ..], [type |-> "null"] or            *)
(* [type |-> "object"]; a rule keeps the two fields the resolver reads.  A  *)
(* call returns [threw |-> TRUE, ..] when it throws, and else its colour as *)
(* [hex |-> ..], or Null.                                                   *)

UpperCase == <<"A", "B", "C", "D", "E", "F", "G", "H", "I", "J", "K", "L", "M", "N", "O", "P", "Q", "R", "S", "T", "U", "V", "W", "X", "Y", "Z">>

LowerCase == <<"a", "b", "c", "d", "e", "f", "g", "h", "i", "j", "k", "l", "m", "n", "o", "p", "q", "r", "s", "t", "u", "v", "w", "x", "y", "z">>

\* String.prototype.toLowerCase on the characters of the model.
toLowerCase(str) ==
  [i \in 1..Len(str) |->
     IF \E k \in 1..Len(UpperCase) : UpperCase[k] = str[i]
     THEN LowerCase[CHOOSE k \in 1..Len(UpperCase) : UpperCase[k] = str[i]]
     ELSE str[i]]

\* String.prototype.includes
includes(str, search) ==
  \E i \in 0..(Len(str) - Len(search)) : SubSeq(str, i + 1, i + Len(search)) = search

Array(items) == [type |-> "array", items |-> items]

DEFAULT_RULES ==
  <<\* Classes
   [keywords |-> <<<<"l", "e", "c", "t", "u", "r", "e">>,
                  <<"c", "l", "a", "s", "s">>,
                  <<"d", "i", "s", "c", "u", "s", "s", "i", "o", "n">>,
                  <<"C", "S">>,
                  <<"M", "A", "T", "H">>,
                  <<"E", "E", "C", "S">>,
                  <<"S", "T", "A", "T">>>>,
    color |-> "#3b82f6"],
   \* Homework
   [keywords |-> <<<<"h", "o", "m", "e", "w", "o", "r", "k">>,
                  <<"a", "s", "s", "i", "g", "n", "m", "e", "n", "t">>,
                  <<"d", "u", "e">>,
                  <<"s", "u", "b", "m", "i", "s", "s", "i", "o", "n">>,
                  <<"H", "W">>>>,
    color |-> "#22c55e"],
   \* Exams
   [keywords |-> <<<<"e", "x", "a", "m">>,
                  <<"m", "i", "d", "t", "e", "r", "m">>,
                  <<"f", "i", "n", "a", "l">>,
                  <<"q", "u", "i", "z">>,
                  <<"t", "e", "s", "t">>>>,
    color |-> "#ef4444"],
   \* Meetings
   [keywords |-> <<<<"m", "e", "e", "t", "i", "n", "g">>,
                  <<"1", ":", "1">>,
                  <<"s", "t", "a", "n", "d", "u", "p">>,
                  <<"s", "y", "n", "c">>,
                  <<"c", "a", "l", "l">>>>,
    color |-> "#8b5cf6"],
   \* Social
   [keywords |-> <<<<"l", "u", "n", "c", "h">>,
                  <<"c", "o", "f", "f", "e", "e">>,
                  <<"d", "i", "n", "n", "e", "r">>,
                  <<"s", "o", "c", "i", "a", "l">>,
                  <<"p", "a", "r", "t", "y">>>>,
    color |-> "#f97316"],
   \* Office Hours
   [keywords |-> <<<<"o", "f", "f", "i", "c", "e", " ", "h", "o", "u", "r", "s">>,
                  <<"O", "H">>,
                  <<"t", "u", "t", "o", "r", "i", "n", "g">>,
                  <<"h", "e", "l", "p">>>>,
    color |-> "#06b6d4"]>>

\* JSON.parse of a stored text: the value the text encodes, or a SyntaxError.
JSONparse(stored) ==
  IF stored.text = "json"
  THEN [threw |-> FALSE, value |-> stored.value]
  ELSE [threw |-> TRUE, value |-> Undefined]

\* JSON.stringify of a rule list
JSONstringify(items) == [text |-> "json", value |-> Array(items)]

\* getColorRules in the browser; stored is localStorage.getItem(STORAGE_KEY),
\* Null when the item is absent.
getColorRules(stored) ==
  IF stored = Null THEN Array(DEFAULT_RULES)
  ELSE IF stored.text = "empty" THEN Array(DEFAULT_RULES)
  ELSE LET parsed == JSONparse(stored)
       IN IF parsed.threw THEN Array(DEFAULT_RULES) ELSE parsed.value

\* saveColorRules(rules)
saveColorRules(items) == JSONstringify(items)

\* The inner loop of getColorForEvent over one rule's keywords.
RuleMatches(lowerTitle, rule) ==
  \E k \in 1..Len(rule.keywords) : includes(lowerTitle, toLowerCase(rule.keywords[k]))

\* A scan that lets a later matching rule override an earlier one.
ScanRules_lastMatch(lowerTitle, items, i) ==
  LET matching == {j \in i..Len(items) : RuleMatches(lowerTitle, items[j])}
  IN [threw |-> FALSE,
      color |-> IF matching = {} THEN Null
                ELSE [hex |-> items[CHOOSE j \in matching : \A l \in matching : l <= j].color]]

\* The outer loop of getColorForEvent from the i-th rule on.  An item without
\* keywords makes `for (const keyword of rule.keywords)' throw a TypeError.
RECURSIVE ScanRules(_, _, _)
ScanRules(lowerTitle, items, i) ==
  IF i > Len(items) THEN [threw |-> FALSE, color |-> Null]
  ELSE IF "keywords" \notin DOMAIN items[i] THEN [threw |-> TRUE, color |-> Null]
  ELSE IF RuleMatches(lowerTitle, items[i]) THEN [threw |-> FALSE, color |-> [hex |-> items[i].color]]
  ELSE ScanRules(lowerTitle, items, i + 1)

\* getColorForEvent returning the colour of the last matching rule.
getColorForEvent_lastMatch(title, rules, stored) ==
  LET colorRules == IF rules # Undefined THEN rules ELSE getColorRules(stored)
  IN IF colorRules.type # "array" THEN [threw |-> TRUE, color |-> Null]
     ELSE ScanRules_lastMatch(toLowerCase(title), colorRules.items, 1)

\* getColorForEvent(title, rules): `for (const rule of colorRules)' throws a
\* TypeError when colorRules is not iterable.  The function declares two
\* parameters; a third argument of a call is not read.
getColorForEvent(title, rules, stored) ==
  LET colorRules == IF rules # Undefined THEN rules ELSE getColorRules(stored)
      lowerTitle == toLowerCase(title)
  IN IF colorRules.type # "array" THEN [threw |-> TRUE, color |-> Null]
     ELSE ScanRules(lowerTitle, colorRules.items, 1)

EVENT_COLORS ==
  <<"#6366f1", "#8b5cf6", "#a855f7", "#ec4899", "#f43f5e", "#ef4444",
    "#f97316", "#ca8a04", "#16a34a", "#0d9488", "#0891b2", "#3b82f6">>

\* A test that finds no colour too light.
isColorTooLight_never(hex) == FALSE

\* isColorTooLight: hex.rgb is the three channels parseInt reads from the hex
\* string; luminance > 0.6 with luminance = (0.299 r + 0.587 g + 0.114 b) / 255.
isColorTooLight(hex) ==
  299 * hex.rgb[1] + 587 * hex.rgb[2] + 114 * hex.rgb[3] > 153000

colorReplacements ==
  ("#7ae7bf" :> "#0d9488") @@ ("#51b749" :> "#16a34a") @@ ("#fbd75b" :> "#ca8a04") @@
  ("#ffb878" :> "#ea580c") @@ ("#ff887c" :> "#dc2626") @@ ("#a4bdfc" :> "#3b82f6") @@
  ("#dbadff" :> "#9333ea") @@ ("#e1e1e1" :> "#6366f1")

\* getEventColor whose fallback is always the first palette colour.
getEventColor_firstPalette(event, index, stored) ==
  LET ruleColor == getColorForEvent(event.summary, Undefined, stored)
      fallback == EVENT_COLORS[1]
  IN IF ruleColor.threw THEN ruleColor
     ELSE IF ruleColor.color # Null THEN ruleColor
     ELSE IF event.calendarColor # Undefined
          THEN LET lower == event.calendarColor.lower
               IN IF lower \in DOMAIN colorReplacements
                  THEN [threw |-> FALSE, color |-> [hex |-> colorReplacements[lower]]]
                  ELSE IF isColorTooLight(event.calendarColor)
                       THEN [threw |-> FALSE, color |-> [hex |-> fallback]]
                       ELSE [threw |-> FALSE, color |-> [hex |-> event.calendarColor.hex]]
          ELSE [threw |-> FALSE, color |-> [hex |-> fallback]]

\* WeekView's getEventColor(event, index).  event.description is handed to
\* getColorForEvent as a third argument.  A calendarColor is the record of
\* its hex string, of that string in lower case and of its channels.
getEventColor(event, index, stored) ==
  LET ruleColor == getColorForEvent(event.summary, Undefined, stored)
      fallback == EVENT_COLORS[(index % Len(EVENT_COLORS)) + 1]
  IN IF ruleColor.threw THEN ruleColor
     ELSE IF ruleColor.color # Null THEN ruleColor
     ELSE IF event.calendarColor # Undefined
          THEN LET lower == event.calendarColor.lower
               IN IF lower \in DOMAIN colorReplacements
                  THEN [threw |-> FALSE, color |-> [hex |-> colorReplacements[lower]]]
                  ELSE IF isColorTooLight(event.calendarColor)
                       THEN [threw |-> FALSE, color |-> [hex |-> fallback]]
                       ELSE [threw |-> FALSE, color |-> [hex |-> event.calendarColor.hex]]
          ELSE [threw |-> FALSE, color |-> [hex |-> fallback]]

-----------------------------------------------------------------------------
(* Colour resolution applied to titles, rule lists, events and stored items *)
(* drawn from small sets.                                                   *)

\* "Lunch", "cs exam", "gym" and the empty title (an absent summary reads as '').
Titles == {<<"L", "u", "n", "c", "h">>, <<"c", "s", " ", "e", "x", "a", "m">>, <<"g", "y", "m">>, <<>>}

\* Rules a caller may pass: on "exam"; on "quiz" or "CS"; on "LUNCH"; one
\* without keywords.
RuleChoices ==
  {[keywords |-> <<<<"e", "x", "a", "m">>>>, color |-> "#ef4444"],
   [keywords |-> <<<<"q", "u", "i", "z">>, <<"C", "S">>>>, color |-> "#3b82f6"],
   [keywords |-> <<<<"L", "U", "N", "C", "H">>>>, color |-> "#f97316"],
   [keywords |-> <<>>, color |-> "#06b6d4"]}

\* The lists of at most two of them.
RuleLists ==
  {<<>>} \cup {<<r>> : r \in RuleChoices} \cup {<<r, q>> : r \in RuleChoices, q \in RuleChoices}

\* The item as a session may find it: absent, the empty text, text that is not
\* JSON, and JSON texts of null, of an object, of an empty list, of a list of
\* one rule and of a list holding a number.
StoredItems ==
  {Null, [text |-> "empty"], [text |-> "malformed"],
   [text |-> "json", value |-> [type |-> "null"]],
   [text |-> "json", value |-> [type |-> "object"]],
   [text |-> "json", value |-> Array(<<>>)],
   [text |-> "json", value |-> Array(<<[keywords |-> <<<<"e", "x", "a", "m">>>>, color |-> "#ef4444"]>>)],
   [text |-> "json", value |-> Array(<<[type |-> "number"]>>)]}

\* Descriptions: none, one without a tag, one holding `[type: exam]'.
Descriptions == {Undefined, [tag |-> "none"], [tag |-> "exam"]}

\* Calendar colours: none, a light one with a replacement (in upper case), a
\* light one without, a dark one.
CalendarColors ==
  {Undefined,
   [hex |-> "#7AE7BF", lower |-> "#7ae7bf", rgb |-> <<122, 231, 191>>],
   [hex |-> "#ffffff", lower |-> "#ffffff", rgb |-> <<255, 255, 255>>],
   [hex |-> "#0b8043", lower |-> "#0b8043", rgb |-> <<11, 128, 67>>]}

Indices == {0, 13}

InitColor ==
  /\ dayEvents = <<>>
  /\ eventLayouts = getEventsWithLayout(<<>>)
  /\ dayViewLayouts = DayView_getEventsWithLayout(<<>>)
  /\ undoStack = <<>>
  /\ pendingCalls = {}
  /\ mutations = 0
  /\ unbounded = <<>>
  /\ lastOp = [op |-> "none"]
  /\ week = IdleWeek
  /\ events = {}
  /\ dnd = "none"
  /\ pressTarget = Null
  /\ rescheduled = FALSE
  /\ store = <<>>
  /\ journal = Null
  /\ storedRules \in StoredItems
  /\ colorArgs \in
       [rules : {Undefined} \cup {Array(l) : l \in RuleLists},
        event : [summary : Titles, description : Descriptions,
                 calendarColor : CalendarColors],
        index : Indices]
  /\ offset = 0

colorFrame == <<layoutVars, undoStack, pendingCalls, mutations, unbounded,
                weekVars, remoteVars, colorArgs, offset>>

\* getColorForEvent(title, rules) is called with the event's title.
GetColorForEvent ==
  /\ lastOp' = [op |-> "getColorForEvent",
                result |-> getColorForEvent(colorArgs.event.summary, colorArgs.rules,
                                            storedRules)]
  /\ UNCHANGED <<storedRules, colorFrame>>

\* The week view renders the event.
GetEventColor ==
  /\ lastOp' = [op |-> "getEventColor",
                result |-> getEventColor(colorArgs.event, colorArgs.index, storedRules)]
  /\ UNCHANGED <<storedRules, colorFrame>>

\* The settings dialog saves a rule list.
SaveColorRules ==
  /\ colorArgs.rules # Undefined
  /\ storedRules' = saveColorRules(colorArgs.rules.items)
  /\ lastOp' = [op |-> "saveColorRules"]
  /\ UNCHANGED colorFrame

\* resetToDefaults()
ResetToDefaults ==
  /\ storedRules' = saveColorRules(DEFAULT_RULES)
  /\ lastOp' = [op |-> "resetToDefaults", result |-> DEFAULT_RULES]
  /\ UNCHANGED colorFrame

NextColor == GetColorForEvent \/ GetEventColor \/ SaveColorRules \/ ResetToDefaults

SpecColor == InitColor /\ [][NextColor]_vars

-----------------------------------------------------------------------------
(* Properties of colour resolution *)

\* Two characters that are the same letter in either case, or the same character.
SameLetter(a, b) ==
  \/ a = b
  \/ \E n \in 1..Len(UpperCase) : {a, b} = {UpperCase[n], LowerCase[n]}

\* keyword occurs in title, case ignored.
OccursIn(keyword, title) ==
  \E i \in 0..(Len(title) - Len(keyword)) :
     \A j \in 1..Len(keyword) : SameLetter(title[i + j], keyword[j])

\* The positions of the rules of a list that have a keyword occurring in title.
MatchingRules(title, items) ==
  {i \in 1..Len(items) : \E k \in 1..Len(items[i].keywords) :
                            OccursIn(items[i].keywords[k], title)}

\* The list getColorForEvent scans: the one passed, or the built-in defaults
\* when none is passed and nothing is stored.
ScannedList == IF colorArgs.rules # Undefined THEN colorArgs.rules.items ELSE DEFAULT_RULES

TaskTypes == {"homework", "assignment", "lab", "quiz", "exam", "project"}

\* C23: a structured tag always wins: when the description holds
\* `[type: <word>]' with <word> a task type, the colour resolved for the event
\* is the colour of that task type, so it is the same colour whatever the
\* title is and whatever rules are stored, also when a keyword rule matches
\* the title.
C23_StructuredTagAlwaysWins ==
  (/\ lastOp.op = "getEventColor"
   /\ colorArgs.event.description # Undefined
   /\ colorArgs.event.description.tag \in TaskTypes) =>
     /\ ~lastOp.result.threw
     /\ \A title \in Titles :
          \A stored \in {Null, saveColorRules(<<>>), saveColorRules(DEFAULT_RULES)} :
             getEventColor([colorArgs.event EXCEPT !.summary = title],
                           colorArgs.index, stored) = lastOp.result

\* C24: keyword rules are matched in list order and the first match wins:
\* getColorForEvent returns the colour of the first rule of the list that has
\* a keyword occurring as a case-insensitive substring of the title, and no
\* colour when no rule matches.
C24_FirstMatchingRuleWins ==
  (/\ lastOp.op = "getColorForEvent"
   /\ colorArgs.rules # Undefined \/ storedRules = Null) =>
     LET matching == MatchingRules(colorArgs.event.summary, ScannedList)
     IN /\ ~lastOp.result.threw
        /\ matching = {} => lastOp.result.color = Null
        /\ matching # {} =>
             \E i \in matching :
                /\ \A j \in matching : i <= j
                /\ lastOp.result.color = [hex |-> ScannedList[i].color]

\* "cs exam" was resolved against the rule on "quiz" or "CS" followed by the
\* rule on "exam", and got the colour of the former.
C24_Witness ==
  /\ lastOp.op = "getColorForEvent"
  /\ colorArgs.event.summary = <<"c", "s", " ", "e", "x", "a", "m">>
  /\ colorArgs.rules # Undefined
  /\ Len(colorArgs.rules.items) = 2
  /\ MatchingRules(colorArgs.event.summary, colorArgs.rules.items) = {1, 2}
  /\ colorArgs.rules.items[1].color # colorArgs.rules.items[2].color
  /\ lastOp.result.color = [hex |-> "#3b82f6"]

\* The stored item is a JSON text of a list of rules.
StoredIsRuleList ==
  /\ storedRules # Null
  /\ storedRules.text = "json"
  /\ storedRules.value.type = "array"
  /\ \A i \in 1..Len(storedRules.value.items) :
        "keywords" \in DOMAIN storedRules.value.items[i]

\* C26: malformed persisted colour rules never cause a hard failure: for every
\* stored item that is not a list of rules (absent, not parseable, or parseable
\* to something else) getColorRules yields the built-in defaults, and
\* getColorForEvent, called without a list, completes without throwing.
C26_MalformedRulesFallBack ==
  ~StoredIsRuleList =>
     /\ getColorRules(storedRules) = Array(DEFAULT_RULES)
     /\ (lastOp.op = "getColorForEvent" /\ colorArgs.rules = Undefined) =>
           ~lastOp.result.threw

\* The week view has just resolved the colour of an event for which the rule
\* lookup completed and returned no colour.
NoRuleMatched ==
  /\ lastOp.op = "getEventColor"
  /\ ~lastOp.result.threw
  /\ getColorForEvent(colorArgs.event.summary, Undefined, storedRules) =
        [threw |-> FALSE, color |-> Null]

\* 1000 * 255 * luminance, luminance = (0.299 R + 0.587 G + 0.114 B) / 255;
\* luminance <= 0.6 is WeightedChannels <= 153000.
WeightedChannels(rgb) == 299 * rgb[1] + 587 * rgb[2] + 114 * rgb[3]

\* The channels of the darker equivalents of the light-colour table.
DarkerChannels ==
  ("#0d9488" :> <<13, 148, 136>>) @@ ("#16a34a" :> <<22, 163, 74>>) @@
  ("#ca8a04" :> <<202, 138, 4>>) @@ ("#ea580c" :> <<234, 88, 12>>) @@
  ("#dc2626" :> <<220, 38, 38>>) @@ ("#3b82f6" :> <<59, 130, 246>>) @@
  ("#9333ea" :> <<147, 51, 234>>) @@ ("#6366f1" :> <<99, 102, 241>>)

PaletteAt(index) == [hex |-> EVENT_COLORS[(index % 12) + 1]]

\* C32: a colour taken from the provider's per-calendar colour is never too
\* light: when no rule matches, getEventColor first remaps a colour of the
\* light-colour table to its darker equivalent (of luminance at most 0.6),
\* otherwise returns the provider colour only if its luminance is at most 0.6,
\* and otherwise returns the palette colour at index mod 12.
C32_ProviderColourNeverTooLight ==
  (NoRuleMatched /\ colorArgs.event.calendarColor # Undefined) =>
     LET provided == colorArgs.event.calendarColor
         resolved == lastOp.result.color
     IN IF provided.lower \in DOMAIN colorReplacements
        THEN /\ resolved = [hex |-> colorReplacements[provided.lower]]
             /\ WeightedChannels(DarkerChannels[resolved.hex]) <= 153000
        ELSE IF WeightedChannels(provided.rgb) <= 153000
             THEN resolved = [hex |-> provided.hex]
             ELSE resolved = PaletteAt(colorArgs.index)

\* A white provider colour was replaced by the palette colour of index 13.
C32_Witness ==
  /\ NoRuleMatched
  /\ colorArgs.event.calendarColor # Undefined
  /\ colorArgs.event.calendarColor.hex = "#ffffff"
  /\ colorArgs.index = 13
  /\ lastOp.result.color = [hex |-> "#8b5cf6"]

\* The description holds no structured tag.
Untagged ==
  \/ colorArgs.event.description = Undefined
  \/ colorArgs.event.description.tag \notin TaskTypes

\* C33: with no matching rule, no tag and no provider colour the resolved
\* colour is the entry of the 12-colour palette at index mod 12: it is a
\* palette member, and index + 12 resolves to the same colour.
C33_PaletteFallbackByIndexMod12 ==
  (NoRuleMatched /\ Untagged /\ colorArgs.event.calendarColor = Undefined) =>
     /\ Len(EVENT_COLORS) = 12
     /\ lastOp.result.color = PaletteAt(colorArgs.index)
     /\ \E k \in 1..Len(EVENT_COLORS) : lastOp.result.color = [hex |-> EVENT_COLORS[k]]
     /\ getEventColor(colorArgs.event, colorArgs.index + 12, storedRules) = lastOp.result

\* "gym" without tag and provider colour, at index 13, got the second palette
\* colour.
C33_Witness ==
  /\ NoRuleMatched
  /\ Untagged
  /\ colorArgs.event.calendarColor = Undefined
  /\ colorArgs.event.summary = <<"g", "y", "m">>
  /\ colorArgs.index = 13
  /\ lastOp.result.color = [hex |-> "#8b5cf6"]

-----------------------------------------------------------------------------
(* Snapping of a minute offset, applied to offsets drawn from a range that  *)
(* reaches past both ends of the day.                                       *)

\* Math.round(n / d) for an integer n and a positive integer d.
MathRound(n, d) == (2 * n + d) \div (2 * d)

\* The snap without the clamp to the day.
snap_noClamp(minutes, granularity) == MathRound(minutes, granularity) * granularity

\* The last line of getMinutesFromY, the granularity made a parameter: 5 in
\* the week view (part_002), 15 in its earlier version (WeekView.tsx).
snap(minutes, granularity) ==
  Max(0, Min(24 * 60, MathRound(minutes, granularity) * granularity))

Granularities == {5, 15}

Offsets == (0 - Overshoot)..(MinutesPerDay + Overshoot)

InitSnap ==
  /\ dayEvents = <<>>
  /\ eventLayouts = getEventsWithLayout(<<>>)
  /\ dayViewLayouts = DayView_getEventsWithLayout(<<>>)
  /\ undoStack = <<>>
  /\ pendingCalls = {}
  /\ mutations = 0
  /\ unbounded = <<>>
  /\ lastOp = [op |-> "none"]
  /\ week = IdleWeek
  /\ events = {}
  /\ dnd = "none"
  /\ pressTarget = Null
  /\ rescheduled = FALSE
  /\ store = <<>>
  /\ journal = Null
  /\ storedRules = Null
  /\ colorArgs = Null
  /\ offset \in Offsets

\* The offset is snapped to a granularity.
Snap ==
  /\ \E granularity \in Granularities :
        /\ offset' = snap(offset, granularity)
        /\ lastOp' = [op |-> "snap", x |-> offset, g |-> granularity]
  /\ UNCHANGED <<layoutVars, undoStack, pendingCalls, mutations, unbounded,
                 weekVars, remoteVars, storedRules, colorArgs>>

NextSnap == Snap

SpecSnap == InitSnap /\ [][NextSnap]_vars

\* C25: snapping is idempotent and bounded: for every integer minute offset x
\* and granularity g in {5, 15}, snap(snap(x, g), g) = snap(x, g), and
\* snap(x, g) is a multiple of g within [0, 1440].
C25_SnapIdempotentAndBounded ==
  lastOp.op = "snap" =>
     /\ offset = snap(lastOp.x, lastOp.g)
     /\ snap(offset, lastOp.g) = offset
     /\ offset % lastOp.g = 0
     /\ offset >= 0
     /\ offset <= 1440

\* An offset past the end of the day has just been snapped to 15 minutes.
C25_Witness ==
  /\ lastOp.op = "snap"
  /\ lastOp.g = 15
  /\ lastOp.x > 1440
  /\ offset = 1440

-----------------------------------------------------------------------------
(* The week view's layout of events whose end may be missing, equal to the  *)
(* start, or on the day after the start.  start and end stay the minute of  *)
(* the day of the two instants, which is what getEventPosition reads        *)
(* (getHours() * 60 + getMinutes()); endDay, which the layout does not      *)
(* read, tells how many days after the start's day the end instant lies.    *)

\* 09:00-10:00 and 09:30-10:30; 09:30-09:30 (no duration); 09:00 without an
\* end; 09:00 to 10:00 of the next day; 10:00 to 09:00 of the next day; 09:30
\* to 09:30 of the next day.
SpanEvents(id) ==
  {[id |-> id, timed |-> TRUE, hasEnd |-> TRUE, start |-> 540, end |-> 600, endDay |-> 0],
   [id |-> id, timed |-> TRUE, hasEnd |-> TRUE, start |-> 570, end |-> 630, endDay |-> 0],
   [id |-> id, timed |-> TRUE, hasEnd |-> TRUE, start |-> 570, end |-> 570, endDay |-> 0],
   [id |-> id, timed |-> TRUE, hasEnd |-> FALSE, start |-> 540, end |-> 0, endDay |-> 0],
   [id |-> id, timed |-> TRUE, hasEnd |-> TRUE, start |-> 540, end |-> 600, endDay |-> 1],
   [id |-> id, timed |-> TRUE, hasEnd |-> TRUE, start |-> 600, end |-> 540, endDay |-> 1],
   [id |-> id, timed |-> TRUE, hasEnd |-> TRUE, start |-> 570, end |-> 570, endDay |-> 1]}

InitSpan ==
  /\ dayEvents = <<>>
  /\ eventLayouts = getEventsWithLayout(<<>>)
  /\ dayViewLayouts = DayView_getEventsWithLayout(<<>>)
  /\ undoStack = <<>>
  /\ pendingCalls = {}
  /\ mutations = 0
  /\ unbounded = <<>>
  /\ lastOp = [op |-> "none"]
  /\ week = IdleWeek
  /\ events = {}
  /\ dnd = "none"
  /\ pressTarget = Null
  /\ rescheduled = FALSE
  /\ store = <<>>
  /\ journal = Null
  /\ storedRules = Null
  /\ colorArgs = Null
  /\ offset = 0

\* The event list is refreshed with one more event and laid out.
AddSpanEvent ==
  /\ Len(dayEvents) < MaxSpanEvents
  /\ \E e \in SpanEvents(MaxSpanEvents - Len(dayEvents)) :
        /\ dayEvents' = Append(dayEvents, e)
        /\ eventLayouts' = getEventsWithLayout(dayEvents')
        /\ dayViewLayouts' = DayView_getEventsWithLayout(dayEvents')
  /\ UNCHANGED <<undoVars, weekVars, remoteVars, pureVars>>

NextSpan == AddSpanEvent

SpecSpan == InitSpan /\ [][NextSpan]_vars

\* The event has an end, on its own day, at the instant it starts.
ZeroDuration(event) ==
  event.hasEnd /\ event.endDay = 0 /\ event.end = event.start

\* The events that take part in layout: those with an end and some duration.
RECURSIVE TakingPart(_)
TakingPart(evs) ==
  IF evs = <<>> THEN <<>>
  ELSE IF evs[1].hasEnd /\ ~ZeroDuration(evs[1])
       THEN <<evs[1]>> \o TakingPart(Tail(evs))
       ELSE TakingPart(Tail(evs))

\* C28: zero-duration events and events whose end is missing take no part in
\* layout: the result map has no entry for them, and the entries of the other
\* events are those of the day without them (they occupy no column and raise
\* no totalColumns).
C28_ZeroDurationAndEndlessExcluded ==
  /\ \A i \in 1..Len(dayEvents) :
        (ZeroDuration(dayEvents[i]) \/ ~dayEvents[i].hasEnd) =>
           dayEvents[i].id \notin DOMAIN eventLayouts
  /\ eventLayouts = getEventsWithLayout(TakingPart(dayEvents))

\* The minutes from the midnight that begins the event's day to its end
\* instant, clamped to the day.
EndOffset(event) == Max(0, Min(MinutesPerDay, event.endDay * MinutesPerDay + event.end))

\* C29: an event's end offset is the minutes from local midnight of the
\* event's day to its end instant, clamped to [0, 1440]: every event whose end
\* instant lies on a later day than its start is laid out as running to the
\* end of the day (endMinutes = 1440), whatever the end's time of day.
C29_EndOffsetClampedToDay ==
  \A i \in 1..Len(dayEvents) :
     dayEvents[i].hasEnd =>
        /\ Pos(i).endMinutes = EndOffset(dayEvents[i])
        /\ dayEvents[i].endDay >= 1 => Pos(i).endMinutes = MinutesPerDay

-----------------------------------------------------------------------------
(* The mutating intents of the week view: the create dialog's submit        *)
(* (handleCreateEvent), the event dialog's delete (handleDeleteEvent) and   *)
(* save (EventModal handleSave), and the drop.  Each handler yields the     *)
(* stack it leaves and its effects in program order, as handleDrop does.    *)

\* onClick of an event's element
onClickEvent(w, event) ==
  IF w.draggingEvent = Null THEN [w EXCEPT !.selectedEvent = event] ELSE w

\* onClose of the event dialog
onCloseEventModal(w) == [w EXCEPT !.selectedEvent = Null]

\* `${editData.startDate}T${editData.startTime}:00': a date-time string
\* without offset.
LocalString(date) == [t |-> date, form |-> "local"]

\* handleCreateEvent(eventData) up to its await
handleCreateEvent(w, stack, eventData) ==
  [week |-> w,
   stack |-> stack,
   effects |-> <<[effect |-> "fetch",
                  call |-> [method |-> "POST",
                            body |-> [summary |-> eventData.summary,
                                      start |-> toISOString(eventData.start),
                                      end |-> toISOString(eventData.end)]]]>>]

\* handleDeleteEvent(event) up to its await
handleDeleteEvent(w, stack, event) ==
  [week |-> w,
   stack |-> stack,
   effects |-> <<[effect |-> "fetch",
                  call |-> [method |-> "DELETE",
                            query |-> [eventId |-> event.id,
                                       calendarId |-> CalendarIdOf(event)]]]>>]

\* EventModal handleSave up to its await
handleSave(w, stack, event, editData) ==
  [week |-> w,
   stack |-> stack,
   effects |-> <<[effect |-> "fetch",
                  call |-> [method |-> "PATCH",
                            body |-> [eventId |-> event.id,
                                      calendarId |-> CalendarIdOf(event),
                                      summary |-> editData.summary,
                                      start |-> LocalString(editData.start),
                                      end |-> LocalString(editData.end)]]]>>]

\* What follows the await of the three handlers, and the `then' callback of
\* the drop: on an ok response the dialog is closed (create, delete, save) and
\* the parent is notified; otherwise an alert is shown, except for the drop.
intentSettled(w, handler, outcome) ==
  [week |-> IF outcome # "ok" THEN w
            ELSE IF handler = "createEvent" THEN [w EXCEPT !.createModalData = Null]
            ELSE IF handler \in {"deleteEvent", "saveEdit"}
                 THEN [w EXCEPT !.selectedEvent = Null]
            ELSE w,
   notified |-> outcome = "ok",
   alerted |-> outcome # "ok" /\ handler # "drop"]

\* What the create dialog is submitted with and what an edit is saved with.
Summaries == {"standup"}

EditChoices(event) ==
  {[summary |-> "standup",
    start |-> parseISO(event.start.dateTime) + 30,
    end |-> parseISO(event.end.dateTime) + 30]}

InitIntent ==
  /\ dayEvents = <<>>
  /\ eventLayouts = getEventsWithLayout(<<>>)
  /\ dayViewLayouts = DayView_getEventsWithLayout(<<>>)
  /\ undoStack = <<>>
  /\ pendingCalls = {}
  /\ mutations = 0
  /\ unbounded = <<>>
  /\ lastOp = [op |-> "none"]
  /\ week = IdleWeek
  /\ events = WeekEvents
  /\ dnd = "none"
  /\ pressTarget = Null
  /\ rescheduled = FALSE
  /\ store = <<>>
  /\ journal = Null
  /\ storedRules = Null
  /\ colorArgs = Null
  /\ offset = 0

intentFrame == <<layoutVars, unbounded, events, dnd, pressTarget, rescheduled,
                 remoteVars, pureVars>>

NoDialog == week.createModalData = Null /\ week.selectedEvent = Null

\* A handler has run: its stack, its calls and what it did are recorded.
RunIntent(op, done) ==
  /\ week' = done.week
  /\ undoStack' = done.stack
  /\ pendingCalls' = pendingCalls \cup
        {[handler |-> op, serial |-> mutations + 1, call |-> c] : c \in CallsOf(done.effects)}
  /\ mutations' = mutations + 1
  /\ lastOp' = [op |-> op, before |-> week, stackBefore |-> undoStack,
                effects |-> done.effects]

\* A range is pressed, dragged and released on a day column.
CreateGesture ==
  /\ NoDialog
  /\ \E day \in Days, from \in PointerYs, to \in PointerYs :
        LET pressed == handleMouseMove(handleMouseDown(week, day, from), to)
        IN /\ week' = handleMouseUp(pressed, undoStack).week
           /\ lastOp' = [op |-> "createGesture", before |-> week]
  /\ UNCHANGED <<undoStack, pendingCalls, mutations, intentFrame>>

\* The create dialog is submitted.
SubmitCreate ==
  /\ week.createModalData # Null
  /\ mutations < MaxIntents
  /\ \E summary \in Summaries :
        RunIntent("createEvent",
                  handleCreateEvent(week, undoStack,
                                    [summary |-> summary,
                                     start |-> week.createModalData.startTime,
                                     end |-> week.createModalData.endTime]))
  /\ UNCHANGED intentFrame

\* An event is clicked and its dialog opens.
ClickEvent ==
  /\ NoDialog
  /\ \E e \in events :
        /\ week' = onClickEvent(week, e)
        /\ lastOp' = [op |-> "clickEvent", before |-> week]
  /\ UNCHANGED <<undoStack, pendingCalls, mutations, intentFrame>>

\* A dialog is closed without a call.
CloseDialog ==
  /\ ~NoDialog
  /\ week' = onCloseEventModal(onCloseCreateModal(week))
  /\ lastOp' = [op |-> "closeDialog", before |-> week]
  /\ UNCHANGED <<undoStack, pendingCalls, mutations, intentFrame>>

\* Delete is pressed in the event dialog.
DeleteEvent ==
  /\ week.selectedEvent # Null
  /\ mutations < MaxIntents
  /\ RunIntent("deleteEvent", handleDeleteEvent(week, undoStack, week.selectedEvent))
  /\ UNCHANGED intentFrame

\* An edit is saved in the event dialog.
SaveEdit ==
  /\ week.selectedEvent # Null
  /\ mutations < MaxIntents
  /\ \E editData \in EditChoices(week.selectedEvent) :
        RunIntent("saveEdit", handleSave(week, undoStack, week.selectedEvent, editData))
  /\ UNCHANGED intentFrame

\* An event is dragged over a day column and dropped; the drag ends.
DropEvent ==
  /\ NoDialog
  /\ mutations < MaxIntents
  /\ \E e \in events, target \in DropTargets :
        LET dragged == onDragOver(onDragStart(week, e), target.day, target.y)
            done == handleMouseUp(dragged, undoStack)
        IN RunIntent("drop", [done EXCEPT !.week = onDragEnd(done.week)])
  /\ UNCHANGED intentFrame

\* The call of an intent ends.
IntentSettle ==
  /\ \E pending \in pendingCalls : \E outcome \in FetchOutcomes :
        LET settled == intentSettled(week, pending.handler, outcome)
        IN /\ week' = settled.week
           /\ pendingCalls' = pendingCalls \ {pending}
           /\ lastOp' = [op |-> "intentSettle", handler |-> pending.handler,
                         outcome |-> outcome, notified |-> settled.notified,
                         alerted |-> settled.alerted]
  /\ UNCHANGED <<undoStack, mutations, intentFrame>>

NextIntent ==
  \/ CreateGesture \/ SubmitCreate \/ ClickEvent \/ CloseDialog
  \/ DeleteEvent \/ SaveEdit \/ DropEvent \/ IntentSettle

SpecIntent == InitIntent /\ [][NextIntent]_vars

\* The kind of undo entry of each mutating intent.
EntryKind ==
  [createEvent |-> "create", deleteEvent |-> "delete", saveEdit |-> "edit", drop |-> "move"]

\* C31: every mutating intent issued from the week view pushes an undo entry
\* of its kind at the moment it is issued: creating pushes a `create' entry,
\* deleting a `delete' entry, saving an edit an `edit' entry and a drop a
\* `move' entry, each before the call of the intent is issued.
C31_EveryIntentPushesItsEntry ==
  lastOp.op \in DOMAIN EntryKind =>
     /\ Len(undoStack) = Len(lastOp.stackBefore) + 1
     /\ Top(undoStack).type = EntryKind[lastOp.op]
     /\ lastOp.effects[1].effect = "pushUndo"
     /\ lastOp.effects[1].action.type = EntryKind[lastOp.op]

-----------------------------------------------------------------------------
(* The parse endpoint, POST /api/parse.  A request is a record of the body  *)
(* fields the handler reads; a pending list is Array(items) or JsNull, a    *)
(* pending update an object or JsNull.  An object is a record that has the  *)
(* fields the JSON had.  The handler yields its calendar calls in program   *)
(* order, the provider's store after them and its response.  The provider's *)
(* store is a sequence: the event of id n at place n, or Null once deleted. *)

JsNull == [type |-> "null"]

\* obj?.field is truthy
Has(obj, field) == field \in DOMAIN obj

\* event.start?.dateTime: the string, or Undefined
StartDateTime(event) ==
  IF Has(event, "start") /\ Has(event.start, "dateTime") THEN event.start.dateTime ELSE Undefined

EndDateTime(event) ==
  IF Has(event, "end") /\ Has(event.end, "dateTime") THEN event.end.dateTime ELSE Undefined

\* new Date(str).getTime()
getTime(str) == parseISO(str)

eventsOverlap(newStart, newEnd, existingStart, existingEnd) ==
  getTime(newStart) < getTime(existingEnd) /\ getTime(newEnd) > getTime(existingStart)

\* NextResponse.json(body, {status}): the fields of the body the client reads.
Json(status, type) ==
  [status |-> status, type |-> type, pendingEvents |-> JsNull,
   pendingDeleteEvents |-> JsNull, pendingUpdateEvent |-> JsNull, items |-> <<>>,
   conflicts |-> {}]

Served(calls, st, response) == [calls |-> calls, store |-> st, response |-> response]

\* The provider holds the event under that calendar and id.
HoldsEvent(st, calendarId, eventId) ==
  /\ eventId \in 1..Len(st)
  /\ st[eventId] # Null
  /\ st[eventId].calendarId = calendarId

\* calendar.events.insert: the event is stored under a fresh id.
InsertCall(event) == [method |-> "insert", calendarId |-> "primary", requestBody |-> event]

Inserted(st, event) ==
  Append(st, [id |-> Len(st) + 1, calendarId |-> "primary", summary |-> event.summary,
              start |-> event.start, end |-> event.end])

RECURSIVE InsertAll(_, _)
InsertAll(st, pending) ==
  IF pending = <<>> THEN st ELSE InsertAll(Inserted(st, Head(pending)), Tail(pending))

\* forceCreate && pendingEvents: every pending event is inserted; the first
\* insert that throws ends the request in the outer catch.
forceCreated(pending, st, reachable) ==
  IF pending = <<>> THEN Served(<<>>, st, Json(200, "create"))
  ELSE IF ~reachable
    THEN Served(<<InsertCall(pending[1])>>, st, Json(500, "error"))
  ELSE Served([i \in 1..Len(pending) |-> InsertCall(pending[i])],
              InsertAll(st, pending),
              [Json(200, "create") EXCEPT !.items = pending])

DeleteCall(event) ==
  [method |-> "delete", calendarId |-> CalendarIdOf(event), eventId |-> event.id]

\* forceDelete && pendingDeleteEvents: every pending event is deleted in its
\* own try; the summaries of those that failed are reported.
RECURSIVE forceDeleted(_, _, _, _, _)
forceDeleted(pending, st, reachable, calls, deletedEvents) ==
  IF pending = <<>>
  THEN Served(calls, st, [Json(200, "delete") EXCEPT !.items = deletedEvents])
  ELSE LET event == Head(pending)
           call == DeleteCall(event)
           done == reachable /\ HoldsEvent(st, call.calendarId, call.eventId)
       IN forceDeleted(Tail(pending),
                       IF done THEN [st EXCEPT ![call.eventId] = Null] ELSE st,
                       reachable,
                       Append(calls, call),
                       IF done THEN Append(deletedEvents, event.summary) ELSE deletedEvents)

\* The body of the patch: the fields the pending update has.
updateBody(pending) ==
  [field \in {f \in {"summary", "description"} : Has(pending, f)}
         \cup {f \in {"start", "end"} : Has(pending, f) /\ Has(pending[f], "dateTime")}
     |-> IF field \in {"start", "end"} THEN [dateTime |-> pending[field].dateTime]
         ELSE pending[field]]

PatchCall(pending) ==
  [method |-> "patch", calendarId |-> CalendarIdOf(pending), eventId |-> pending.id,
   requestBody |-> updateBody(pending)]

Patched(event, body) ==
  [field \in DOMAIN event |-> IF field \in DOMAIN body THEN body[field] ELSE event[field]]

\* forceUpdate && pendingUpdateEvent: one patch in a try of its own.
forceUpdated(pending, st, reachable) ==
  LET call == PatchCall(pending)
  IN IF reachable /\ HoldsEvent(st, call.calendarId, call.eventId)
     THEN Served(<<call>>,
                 [st EXCEPT ![call.eventId] = Patched(st[call.eventId], call.requestBody)],
                 Json(200, "update"))
     ELSE Served(<<call>>, st, Json(500, "error"))

\* events.filter(index === self.findIndex(same summary and start.dateTime))
uniqueEvents(items) ==
  LET First(i) == CHOOSE k \in 1..i :
                     /\ items[k].summary = items[i].summary
                     /\ StartDateTime(items[k]) = StartDateTime(items[i])
                     /\ \A j \in 1..(k-1) :
                          ~(/\ items[j].summary = items[i].summary
                            /\ StartDateTime(items[j]) = StartDateTime(items[i]))
      RECURSIVE Keep(_)
      Keep(i) == IF i > Len(items) THEN <<>>
                 ELSE IF First(i) = i THEN <<items[i]>> \o Keep(i + 1) ELSE Keep(i + 1)
  IN Keep(1)

\* existingEvents.some(same summary ignoring case, same start string)
isDuplicate(newEvent, existingEvents) ==
  /\ StartDateTime(newEvent) # Undefined
  /\ \E k \in 1..Len(existingEvents) :
        /\ toLowerCase(existingEvents[k].summary) = toLowerCase(newEvent.summary)
        /\ StartDateTime(existingEvents[k]) = StartDateTime(newEvent)

\* The new and existing events that overlap, as pairs of their places.
conflictsOf(newEvents, existingEvents) ==
  {<<i, k>> \in (1..Len(newEvents)) \X (1..Len(existingEvents)) :
     /\ StartDateTime(newEvents[i]) # Undefined /\ EndDateTime(newEvents[i]) # Undefined
     /\ StartDateTime(existingEvents[k]) # Undefined /\ EndDateTime(existingEvents[k]) # Undefined
     /\ eventsOverlap(StartDateTime(newEvents[i]), EndDateTime(newEvents[i]),
                      StartDateTime(existingEvents[k]), EndDateTime(existingEvents[k]))}

\* The confirm response inserting the events at once instead of asking.
confirmCreate_insertsAtOnce(nonDuplicateEvents, st) ==
  Served([i \in 1..Len(nonDuplicateEvents) |-> InsertCall(nonDuplicateEvents[i])],
         InsertAll(st, nonDuplicateEvents),
         [Json(200, "create") EXCEPT !.items = nonDuplicateEvents])

\* "Always ask for confirmation before creating events"
confirmCreate(nonDuplicateEvents, st) ==
  Served(<<>>, st,
         [Json(200, "confirm") EXCEPT !.pendingEvents = Array(nonDuplicateEvents)])

\* What the handler does with the model's answer once it is parsed.
answerParsed(parsedResult, existingEvents, st) ==
  IF parsedResult.type = "question" THEN Served(<<>>, st, Json(200, "question"))
  ELSE IF parsedResult.type = "delete" THEN
    LET eventsToDelete == IF Has(parsedResult, "eventsToDelete")
                          THEN parsedResult.eventsToDelete ELSE <<>>
    IN IF Len(eventsToDelete) = 0 THEN Served(<<>>, st, Json(200, "question"))
       ELSE Served(<<>>, st,
                   [Json(200, "confirmDelete") EXCEPT
                      !.pendingDeleteEvents = Array(eventsToDelete)])
  ELSE IF parsedResult.type = "update" THEN
    IF ~Has(parsedResult, "eventToUpdate") \/ ~Has(parsedResult.eventToUpdate, "id")
    THEN Served(<<>>, st, Json(200, "question"))
    ELSE Served(<<>>, st,
                [Json(200, "confirmUpdate") EXCEPT
                   !.pendingUpdateEvent = parsedResult.eventToUpdate])
  ELSE
    LET found == IF Has(parsedResult, "events") THEN parsedResult.events
                 ELSE IF Has(parsedResult, "summary") THEN <<parsedResult>> ELSE <<>>
        unique == uniqueEvents(found)
        nonDuplicateEvents == SelectSeq(unique, LAMBDA e : ~isDuplicate(e, existingEvents))
        duplicates == SelectSeq(unique, LAMBDA e : isDuplicate(e, existingEvents))
    IN IF Len(found) = 0 THEN Served(<<>>, st, Json(400, "error"))
       ELSE IF Len(nonDuplicateEvents) = 0 /\ Len(duplicates) > 0
         THEN Served(<<>>, st, Json(200, "question"))
       \* e.start.dateTime of an event without start throws
       ELSE IF \E k \in 1..Len(nonDuplicateEvents) : ~Has(nonDuplicateEvents[k], "start")
         THEN Served(<<>>, st, Json(500, "error"))
       \* the message names the conflicts
       ELSE [confirmCreate(nonDuplicateEvents, st) EXCEPT
               !.response.conflicts = conflictsOf(nonDuplicateEvents, existingEvents)]

\* JSON.parse(responseText), and again without the code fences
parseAnswer(answer) ==
  IF answer.text = "json" THEN [threw |-> FALSE, value |-> answer.value]
  ELSE [threw |-> TRUE, value |-> Undefined]

\* POST: the request's body, whether it has a session, whether an API key is
\* configured, the store and whether the provider can be reached, and the
\* text the model answers with.
parsePOST(request, session, apiKey, st, reachable, answer) ==
  IF ~session THEN Served(<<>>, st, Json(401, "error"))
  ELSE IF request.forceCreate /\ request.pendingEvents # JsNull
    THEN forceCreated(request.pendingEvents.items, st, reachable)
  ELSE IF request.forceDelete /\ request.pendingDeleteEvents # JsNull
    THEN forceDeleted(request.pendingDeleteEvents.items, st, reachable, <<>>, <<>>)
  ELSE IF request.forceUpdate /\ request.pendingUpdateEvent # JsNull
    THEN forceUpdated(request.pendingUpdateEvent, st, reachable)
  ELSE IF ~apiKey THEN Served(<<>>, st, Json(400, "error"))
  ELSE IF parseAnswer(answer).threw THEN Served(<<>>, st, Json(500, "error"))
  ELSE answerParsed(parseAnswer(answer).value, request.existingEvents, st)

\* The event the calendar holds at first: "Gym" on day 0, 10:00 to 11:00.
Gym ==
  [id |-> 1, calendarId |-> "primary", summary |-> <<"G", "y", "m">>,
   start |-> [dateTime |-> OffsetString(600)], end |-> [dateTime |-> OffsetString(660)]]

ParseStore == <<Gym>>

\* Events the model proposes and requests carry: "gym" at the time of the
\* stored "Gym", "lab" from 10:30 to 11:30, and "run" without a start.
ProposedGym ==
  [summary |-> <<"g", "y", "m">>,
   start |-> [dateTime |-> OffsetString(600)], end |-> [dateTime |-> OffsetString(660)]]

ProposedLab ==
  [summary |-> <<"l", "a", "b">>,
   start |-> [dateTime |-> OffsetString(630)], end |-> [dateTime |-> OffsetString(690)]]

ProposedRun == [summary |-> <<"r", "u", "n">>]

\* Events to delete: the stored one, and one the calendar does not hold.
DeleteGym == [id |-> 1, calendarId |-> "primary", summary |-> <<"G", "y", "m">>]

DeleteGone == [id |-> 9, summary |-> <<"o", "l", "d">>]

\* The update of the stored event: a new summary and a start at 12:00.
UpdateGym ==
  [id |-> 1, calendarId |-> "primary", summary |-> <<"G", "y", "m", "2">>,
   start |-> [dateTime |-> OffsetString(720)]]

\* The pending items a request carries: none, those of one kind, or all.
NoPending ==
  [pendingEvents |-> JsNull, pendingDeleteEvents |-> JsNull, pendingUpdateEvent |-> JsNull]

AllPending ==
  [pendingEvents |-> Array(<<ProposedGym, ProposedLab>>),
   pendingDeleteEvents |-> Array(<<DeleteGym, DeleteGone>>),
   pendingUpdateEvent |-> UpdateGym]

PendingChoices ==
  {NoPending, AllPending,
   [NoPending EXCEPT !.pendingEvents = AllPending.pendingEvents],
   [NoPending EXCEPT !.pendingDeleteEvents = AllPending.pendingDeleteEvents],
   [NoPending EXCEPT !.pendingUpdateEvent = AllPending.pendingUpdateEvent]}

\* What the model answers with.
Answers ==
  {[text |-> "prose"],
   [text |-> "json", value |-> [type |-> "question"]],
   [text |-> "json", value |-> [type |-> "delete"]],
   [text |-> "json", value |-> [type |-> "delete", eventsToDelete |-> <<DeleteGym>>]],
   [text |-> "json", value |-> [type |-> "update"]],
   [text |-> "json", value |-> [type |-> "update",
                                eventToUpdate |-> [summary |-> <<"G", "y", "m">>]]],
   [text |-> "json", value |-> [type |-> "update", eventToUpdate |-> UpdateGym]],
   [text |-> "json", value |-> [type |-> "create", events |-> <<ProposedGym>>]],
   [text |-> "json", value |-> [type |-> "create",
                                events |-> <<ProposedGym, ProposedLab, ProposedLab>>]],
   [text |-> "json", value |-> [type |-> "create", events |-> <<>>]],
   [text |-> "json", value |-> [type |-> "create", events |-> <<ProposedRun>>]],
   [text |-> "json", value |-> [ProposedLab EXCEPT !.summary = <<"l", "a", "b">>] @@
                               [type |-> "create"]]}

\* What a request meets: no session, no API key, a provider that cannot be
\* reached, or nothing of these.
ParseConditions == {"noSession", "noApiKey", "unreachable", "fine"}

\* The events the client lists in the request: those the calendar holds.
existingEventsOf(st) == SelectSeq(st, LAMBDA e : e # Null)

InitParse ==
  /\ dayEvents = <<>>
  /\ eventLayouts = getEventsWithLayout(<<>>)
  /\ dayViewLayouts = DayView_getEventsWithLayout(<<>>)
  /\ undoStack = <<>>
  /\ pendingCalls = {}
  /\ mutations = 0
  /\ unbounded = <<>>
  /\ lastOp = [op |-> "none"]
  /\ week = IdleWeek
  /\ events = {}
  /\ dnd = "none"
  /\ pressTarget = Null
  /\ rescheduled = FALSE
  /\ store = ParseStore
  /\ journal = Null
  /\ storedRules = Null
  /\ colorArgs = Null
  /\ offset = 0

parseFrame == <<layoutVars, undoStack, pendingCalls, unbounded, weekVars, journal, pureVars>>

\* One request is served.
ParseRequest ==
  /\ mutations < MaxParseRequests
  /\ \E forceCreate \in BOOLEAN, forceDelete \in BOOLEAN, forceUpdate \in BOOLEAN,
        pending \in PendingChoices,
        condition \in ParseConditions, answer \in Answers :
        LET request == [existingEvents |-> existingEventsOf(store),
                        forceCreate |-> forceCreate, forceDelete |-> forceDelete,
                        forceUpdate |-> forceUpdate,
                        pendingEvents |-> pending.pendingEvents,
                        pendingDeleteEvents |-> pending.pendingDeleteEvents,
                        pendingUpdateEvent |-> pending.pendingUpdateEvent]
            served == parsePOST(request, condition # "noSession", condition # "noApiKey",
                                store, condition # "unreachable", answer)
        IN /\ store' = served.store
           /\ lastOp' = [op |-> "parse", request |-> request, calls |-> served.calls,
                         response |-> served.response, storeBefore |-> store]
  /\ mutations' = mutations + 1
  /\ UNCHANGED parseFrame

NextParse == ParseRequest

SpecParse == InitParse /\ [][NextParse]_vars

NoForce(request) ==
  ~request.forceCreate /\ ~request.forceDelete /\ ~request.forceUpdate

\* A confirming response carries the items it asks about.
CarriesPending(response) ==
  /\ response.type = "confirm" =>
        response.pendingEvents # JsNull /\ Len(response.pendingEvents.items) > 0
  /\ response.type = "confirmDelete" =>
        response.pendingDeleteEvents # JsNull /\ Len(response.pendingDeleteEvents.items) > 0
  /\ response.type = "confirmUpdate" => response.pendingUpdateEvent # JsNull

\* Every call was asked for by its flag and names a pending item of the request.
CallsMatchFlags(request, calls) ==
  \A i \in 1..Len(calls) :
     /\ calls[i].method = "insert" =>
           /\ request.forceCreate /\ request.pendingEvents # JsNull
           /\ \E k \in 1..Len(request.pendingEvents.items) :
                 request.pendingEvents.items[k] = calls[i].requestBody
     /\ calls[i].method = "delete" =>
           /\ request.forceDelete /\ request.pendingDeleteEvents # JsNull
           /\ \E k \in 1..Len(request.pendingDeleteEvents.items) :
                 request.pendingDeleteEvents.items[k].id = calls[i].eventId
     /\ calls[i].method = "patch" =>
           /\ request.forceUpdate /\ request.pendingUpdateEvent # JsNull
           /\ request.pendingUpdateEvent.id = calls[i].eventId

\* C34 as stated: a request without forceCreate, forceDelete or forceUpdate
\* issues no insert, delete or patch call and is answered with a question,
\* confirm, confirmDelete or confirmUpdate response carrying the pending
\* items; an insert, delete or patch is issued only by a request that carries
\* the matching force flag together with the pending items.
C34_NoChangeWithoutConfirmation_asStated ==
  lastOp.op = "parse" =>
     /\ NoForce(lastOp.request) =>
           /\ lastOp.calls = <<>>
           /\ store = lastOp.storeBefore
           /\ lastOp.response.type \in {"question", "confirm", "confirmDelete", "confirmUpdate"}
           /\ CarriesPending(lastOp.response)
     /\ CallsMatchFlags(lastOp.request, lastOp.calls)

\* C34 (amended): a request without forceCreate, forceDelete or forceUpdate
\* issues no insert, delete or patch call, leaves the calendar as it was, and
\* is answered either with an error (status 400, 401 or 500) or with a
\* question, confirm, confirmDelete or confirmUpdate response carrying the
\* pending items; an insert, delete or patch is issued only by a request that
\* carries the matching force flag together with the pending items.
C34_NoChangeWithoutConfirmation ==
  lastOp.op = "parse" =>
     /\ NoForce(lastOp.request) =>
           /\ lastOp.calls = <<>>
           /\ store = lastOp.storeBefore
           /\ \/ lastOp.response.type = "error" /\ lastOp.response.status \in {400, 401, 500}
              \/ /\ lastOp.response.status = 200
                 /\ lastOp.response.type \in
                       {"question", "confirm", "confirmDelete", "confirmUpdate"}
           /\ CarriesPending(lastOp.response)
     /\ CallsMatchFlags(lastOp.request, lastOp.calls)

\* After a forced request changed the calendar, a request without a force
\* flag is answered with a confirm response that carries one pending event.
C34_Witness ==
  /\ lastOp.op = "parse"
  /\ lastOp.storeBefore # ParseStore
  /\ NoForce(lastOp.request)
  /\ lastOp.response.type = "confirm"
  /\ Len(lastOp.response.pendingEvents.items) = 1
  /\ store = lastOp.storeBefore

====
